---- MODULE Spec2Model ----
(***************************************************************************)
(* Model of the slink Slack bot: the message ingestion of SlackBot         *)
(* (polling, src/src/platforms/slack_bot.py) and SlackBotV2 (push,         *)
(* src/src/platforms/slack_bot_v2.py), the per-user conversation engine    *)
(* both share, and the background jobs the engine starts.                  *)
(*                                                                         *)
(* Texts are sequences of one-character strings, so that lower(), strip(), *)
(* the substring tests and the Slack link unwrapping are computed as the   *)
(* code computes them.                                                     *)
(*                                                                         *)
(* Message ids (Slack "ts") are only ever compared for equality, so they   *)
(* are numbered in the order in which the bot first records them.          *)
(*                                                                         *)
(* One action is one iteration of the polling loop, or one call of the     *)
(* push handler, or the end of one job thread.  Messages are handled one   *)
(* at a time; a job thread never reads the conversation table, so its      *)
(* start and the row's deletion in the same handling need no finer steps.  *)
(* In Spec and SpecDeep the calls to Slack return normally.                *)
(*                                                                         *)
(* SpecJob and SpecJobSend run the target of a job thread on its own, in   *)
(* one action: the thread's arguments and what the profile provider, the   *)
(* directory, the inference backend and Slack answer it are drawn in the   *)
(* initial state.  A backend response is a sequence of lexical tokens, so  *)
(* that json.loads and the regular expressions of the parsers are computed *)
(* on it.                                                                  *)
(***************************************************************************)
EXTENDS Integers, Sequences, FiniteSets, TLC

VARIABLES
    strategy,       \* "poll" (SlackBot) or "push" (SlackBotV2), fixed at construction
    conversations,  \* self.conversations: dict user_id -> row
    processed_messages, \* set of ts that were listed or delivered before
    jobs,           \* the threading.Thread objects that were started and have not finished
    forwarded,      \* history: how many times each ts was handed to the engine
    dispatched,     \* history: thread_ts of the conversations that started a job
    last,           \* history: what the latest step did
    run             \* the run of a job's target or the call of the similarity
                    \* pipeline: its arguments and what the outside world
                    \* answers, and once it ended what it did

vars == <<strategy, conversations, processed_messages, jobs, forwarded, dispatched, last,
          run>>

----------------------------------------------------------------------------
(* Bounds of the model                                                     *)

MaxMsgs == 6        \* distinct user message ids the environment produces
MaxDeepMsgs == 8    \* the same, in the runs with the job-starting texts only
MaxResponseLen == 4 \* tokens in a backend response
MaxCandidates == 3  \* profiles that find_similar_profiles is given
MaxLimit == 2       \* the largest limit that find_similar_profiles is given
MaxMembers == 13    \* members of the workspace directory
MaxJobMembers == 2  \* the same, in the runs with every answer of the provider
MaxFailingPosts == 3 \* calls of chat_postMessage that raise in one job
MaxInboundMsgs == 5 \* distinct message ids in the runs that compare the two filters
MaxSamples == 20    \* samples of one operation that an analysis is given
MaxRecorded == 11   \* samples of chat_postMessage that the bot records
MaxPolls == 1       \* polling cycles whose samples the bot records
MaxFaultMsgs == 5    \* distinct message ids in the runs in which client calls raise
MaxHandlerMsgs == 2  \* distinct message ids delivered to the handler threads
MaxWindowMsgs == 3   \* distinct message ids of the user in the runs of one channel's windows
MaxWindow == 3       \* messages in one window of the channel history

----------------------------------------------------------------------------
(* Python string operations, on sequences of characters                    *)

UpperCase == <<"A", "B", "C", "D", "E", "F", "G", "H", "I", "J", "K", "L", "M",
               "N", "O", "P", "Q", "R", "S", "T", "U", "V", "W", "X", "Y", "Z">>
LowerCase == <<"a", "b", "c", "d", "e", "f", "g", "h", "i", "j", "k", "l", "m",
               "n", "o", "p", "q", "r", "s", "t", "u", "v", "w", "x", "y", "z">>
Whitespace == {" ", "\t", "\n", "\r"}

\* str.lower() of one character
LowerChar(c) ==
    IF \E i \in 1..Len(UpperCase) : UpperCase[i] = c
    THEN LowerCase[CHOOSE i \in 1..Len(UpperCase) : UpperCase[i] = c]
    ELSE c

\* str.lower()
Lower(s) == [i \in 1..Len(s) |-> LowerChar(s[i])]

\* str.strip()
Strip(s) ==
    LET keep == {i \in 1..Len(s) : s[i] \notin Whitespace}
    IN  IF keep = {} THEN <<>>
        ELSE LET lo == CHOOSE i \in keep : \A j \in keep : i <= j
                 hi == CHOOSE i \in keep : \A j \in keep : j <= i
             IN  SubSeq(s, lo, hi)

\* sub in s
Contains(s, sub) ==
    \E i \in 0..(Len(s) - Len(sub)) : SubSeq(s, i + 1, i + Len(sub)) = sub

\* s.startswith(c), s.endswith(c) for a one-character c
StartsWith(s, c) == Len(s) >= 1 /\ s[1] = c
EndsWith(s, c) == Len(s) >= 1 /\ s[Len(s)] = c

\* s.split(c)[0]
SplitFirst(s, c) ==
    LET at == {i \in 1..Len(s) : s[i] = c}
    IN  IF at = {} THEN s
        ELSE SubSeq(s, 1, (CHOOSE i \in at : \A j \in at : i <= j) - 1)

----------------------------------------------------------------------------
(* Python dict operations; None is the empty sequence (no stored text is   *)
(* ever empty)                                                             *)

None == <<>>
Get(d, key) == IF key \in DOMAIN d THEN d[key] ELSE None
Put(d, key, val) == [k \in DOMAIN d \cup {key} |-> IF k = key THEN val ELSE d[k]]
Del(d, key) == [k \in DOMAIN d \ {key} |-> d[k]]

----------------------------------------------------------------------------
(* The workspace                                                           *)

Users == {"U1", "U2"}
BotId == "B0"
\* the direct-message channel between the bot and a user, and a public channel
DM(u) == IF u = "U1" THEN "D1" ELSE IF u = "U2" THEN "D2" ELSE "D0"
PublicChannel == "C0"

AFFIRMATIVE == { <<"y">>, <<"y", "e", "s">>, <<"s", "u", "r", "e">>, <<"o", "k">>,
                 <<"o", "k", "a", "y">> }
LINKEDIN_PATTERN == <<"l", "i", "n", "k", "e", "d", "i", "n", ".", "c", "o", "m",
                      "/", "i", "n", "/">>

\* The texts users send
TextYes == <<"Y", "e", "s">>
TextNo == <<"n", "o">>
TextNay == <<"n", "a", "y">>
TextOne == <<"1">>
TextTwo == <<" ", "2", " ">>
TextWrappedA == <<"<", "l", "i", "n", "k", "e", "d", "i", "n", ".", "c", "o", "m",
                  "/", "i", "n", "/", "a", "|", "a", ">">>
TextRawB == <<"l", "i", "n", "k", "e", "d", "i", "n", ".", "c", "o", "m", "/", "i",
              "n", "/", "b">>
TextLabelOnly == <<"<", "x", "|", "l", "i", "n", "k", "e", "d", "i", "n", ".", "c",
                   "o", "m", "/", "i", "n", "/", "b", ">">>
Texts == {TextYes, TextNo, TextNay, TextOne, TextTwo, TextWrappedA, TextRawB,
          TextLabelOnly}

----------------------------------------------------------------------------
(* The conversation engine                                                 *)

\* one chat_postMessage call
Post(channel_id, what) == [channel |-> channel_id, text |-> what]

\* threading.Thread(target, args); conv is the thread_ts of the conversation
Thread(target, channel_id, user_id, base_url, comparison_url, conv) ==
    [target |-> target, channel_id |-> channel_id, user_id |-> user_id,
     base_url |-> base_url, comparison_url |-> comparison_url, conv |-> conv]

\* the result of one handling: the table, the messages sent, the threads made
Effect(convs, posts, threads) ==
    [conversations |-> convs, posts |-> posts, started |-> threads]

\* variant: one state for the bot, not one per user
SetState_of_all(convs, user_id, state) ==
    [u \in DOMAIN convs |-> Put(convs[u], "state", state)]

\* self.conversations[user_id]["state"] = state
SetState(convs, user_id, state) ==
    [convs EXCEPT ![user_id] = Put(convs[user_id], "state", state)]

\* variant: the label after the pipe is not cut off
clean_slack_url_keeps_label(text) ==
    IF StartsWith(text, "<") /\ EndsWith(text, ">")
    THEN SubSeq(text, 2, Len(text) - 1)
    ELSE text

\* _clean_slack_url
clean_slack_url(text) ==
    IF StartsWith(text, "<") /\ EndsWith(text, ">")
    THEN SplitFirst(SubSeq(text, 2, Len(text) - 1), "|")
    ELSE text

\* variant: the text must be one of the words
is_affirmative_exact(text_lower) == text_lower \in AFFIRMATIVE

\* any(word in text_lower for word in ["y", "yes", "sure", "ok", "okay"])
is_affirmative(text_lower) == \E word \in AFFIRMATIVE : Contains(text_lower, word)

\* variant: any text that is not empty is taken for a reference
is_linkedin_url_any(url) == url # <<>>

\* "linkedin.com/in/" in url
is_linkedin_url(url) == Contains(url, LINKEDIN_PATTERN)

\* variant: the row is left in the table
end_conversation_keeps_row(convs, user_id) == convs

\* del self.conversations[user_id]
end_conversation(convs, user_id) == Del(convs, user_id)

\* variant: the new conversation skips the confirmation question
start_conversation_skips_confirmation(channel_id, user_id, ts, convs) ==
    [conversations |-> Put(convs, user_id, [channel_id |-> channel_id, thread_ts |-> ts,
                                            state |-> "awaiting_linkedin_url"]),
     posts |-> <<[channel |-> channel_id, text |-> "ask_linkedin_url"]>>,
     started |-> {}]

\* start_conversation: the greeting's own ts (response["ts"]) is unique per
\* greeting; it is named here by the ts of the message that is answered
start_conversation(channel_id, user_id, ts, convs) ==
    Effect(Put(convs, user_id, [channel_id |-> channel_id, thread_ts |-> ts,
                                state |-> "awaiting_confirmation"]),
           <<Post(channel_id, "greeting")>>, {})

\* variant: a decline ends the conversation without a reply
on_awaiting_confirmation_silent_decline(channel_id, user_id, text, convs) ==
    IF is_affirmative(Strip(Lower(text)))
    THEN Effect(SetState(convs, user_id, "awaiting_linkedin_url"),
                <<Post(channel_id, "ask_linkedin_url")>>, {})
    ELSE Effect(end_conversation(convs, user_id), <<>>, {})

\* _continue_conversation, state == "awaiting_confirmation"
on_awaiting_confirmation(channel_id, user_id, text, convs) ==
    LET text_lower == Strip(Lower(text))
    IN  IF is_affirmative(text_lower)
        THEN Effect(SetState(convs, user_id, "awaiting_linkedin_url"),
                    <<Post(channel_id, "ask_linkedin_url")>>, {})
        ELSE Effect(end_conversation(convs, user_id),
                    <<Post(channel_id, "no_problem")>>, {})

\* variant: an invalid reference ends the conversation
on_awaiting_linkedin_url_gives_up(channel_id, user_id, text, convs) ==
    LET linkedin_url == clean_slack_url(Strip(text))
    IN  IF is_linkedin_url(linkedin_url)
        THEN LET stored == [convs EXCEPT ![user_id] =
                              Put(convs[user_id], "base_linkedin_url", linkedin_url)]
             IN  Effect(SetState(stored, user_id, "awaiting_comparison_choice"),
                        <<Post(channel_id, "ask_choice")>>, {})
        ELSE Effect(end_conversation(convs, user_id),
                    <<Post(channel_id, "invalid_url")>>, {})

\* _continue_conversation, state == "awaiting_linkedin_url"
on_awaiting_linkedin_url(channel_id, user_id, text, convs) ==
    LET linkedin_url == clean_slack_url(Strip(text))
    IN  IF is_linkedin_url(linkedin_url)
        THEN LET stored == [convs EXCEPT ![user_id] =
                              Put(convs[user_id], "base_linkedin_url", linkedin_url)]
             IN  Effect(SetState(stored, user_id, "awaiting_comparison_choice"),
                        <<Post(channel_id, "ask_choice")>>, {})
        ELSE Effect(convs, <<Post(channel_id, "invalid_url")>>, {})

\* variant: an invalid choice ends the conversation
on_awaiting_comparison_choice_ends_on_invalid(channel_id, user_id, text, convs) ==
    LET choice == Strip(text)
    IN  IF choice = <<"1">>
        THEN Effect(SetState(convs, user_id, "awaiting_comparison_url"),
                    <<Post(channel_id, "ask_comparison_url")>>, {})
        ELSE IF choice = <<"2">>
        THEN Effect(end_conversation(convs, user_id),
                    <<Post(channel_id, "searching")>>,
                    {Thread("_find_similar_profiles", channel_id, user_id,
                            Get(convs[user_id], "base_linkedin_url"), None,
                            convs[user_id].thread_ts)})
        ELSE Effect(end_conversation(convs, user_id),
                    <<Post(channel_id, "invalid_choice")>>, {})

\* variant: choice "2" starts the search and leaves the conversation open
on_awaiting_comparison_choice_stays_open(channel_id, user_id, text, convs) ==
    LET choice == Strip(text)
    IN  IF choice = <<"1">>
        THEN Effect(SetState(convs, user_id, "awaiting_comparison_url"),
                    <<Post(channel_id, "ask_comparison_url")>>, {})
        ELSE IF choice = <<"2">>
        THEN Effect(convs, <<Post(channel_id, "searching")>>,
                    {Thread("_find_similar_profiles", channel_id, user_id,
                            Get(convs[user_id], "base_linkedin_url"), None,
                            convs[user_id].thread_ts)})
        ELSE Effect(convs, <<Post(channel_id, "invalid_choice")>>, {})

\* _continue_conversation, state == "awaiting_comparison_choice"
on_awaiting_comparison_choice(channel_id, user_id, text, convs) ==
    LET choice == Strip(text)
    IN  IF choice = <<"1">>
        THEN Effect(SetState(convs, user_id, "awaiting_comparison_url"),
                    <<Post(channel_id, "ask_comparison_url")>>, {})
        ELSE IF choice = <<"2">>
        THEN LET base_linkedin_url == Get(convs[user_id], "base_linkedin_url")
             IN  Effect(end_conversation(convs, user_id),
                        <<Post(channel_id, "searching")>>,
                        {Thread("_find_similar_profiles", channel_id, user_id,
                                base_linkedin_url, None, convs[user_id].thread_ts)})
        ELSE Effect(convs, <<Post(channel_id, "invalid_choice")>>, {})

\* variant: the two references are passed in the wrong order
on_awaiting_comparison_url_swapped(channel_id, user_id, text, convs) ==
    LET comparison_url == clean_slack_url(Strip(text))
    IN  IF is_linkedin_url(comparison_url)
        THEN Effect(end_conversation(convs, user_id),
                    <<Post(channel_id, "comparing")>>,
                    {Thread("_compare_specific_profiles", channel_id, user_id,
                            comparison_url, Get(convs[user_id], "base_linkedin_url"),
                            convs[user_id].thread_ts)})
        ELSE Effect(convs, <<Post(channel_id, "invalid_url")>>, {})

\* _continue_conversation, state == "awaiting_comparison_url"
on_awaiting_comparison_url(channel_id, user_id, text, convs) ==
    LET comparison_url == clean_slack_url(Strip(text))
    IN  IF is_linkedin_url(comparison_url)
        THEN LET base_linkedin_url == Get(convs[user_id], "base_linkedin_url")
             IN  Effect(end_conversation(convs, user_id),
                        <<Post(channel_id, "comparing")>>,
                        {Thread("_compare_specific_profiles", channel_id, user_id,
                                base_linkedin_url, comparison_url,
                                convs[user_id].thread_ts)})
        ELSE Effect(convs, <<Post(channel_id, "invalid_url")>>, {})

\* _continue_conversation
continue_conversation(channel_id, user_id, text, convs) ==
    LET conversation == Get(convs, user_id)
        state == Get(conversation, "state")
    IN  CASE state = "awaiting_confirmation" ->
                on_awaiting_confirmation(channel_id, user_id, text, convs)
          [] state = "awaiting_linkedin_url" ->
                on_awaiting_linkedin_url(channel_id, user_id, text, convs)
          [] state = "awaiting_comparison_choice" ->
                on_awaiting_comparison_choice(channel_id, user_id, text, convs)
          [] state = "awaiting_comparison_url" ->
                on_awaiting_comparison_url(channel_id, user_id, text, convs)
          [] OTHER -> Effect(convs, <<>>, {})

\* "if user_id in self.conversations: ... else: ..." of both ingestion paths
engine(m, convs) ==
    IF m.user \in DOMAIN convs
    THEN continue_conversation(m.channel, m.user, m.text, convs)
    ELSE start_conversation(m.channel, m.user, m.ts, convs)

\* variant: the id is not recorded
mark_processed_forgets(seen, ts) == seen

\* self.processed_messages.add(ts)
mark_processed(seen, ts) == seen \cup {ts}

\* variant: the target is run to its end by the caller
thread_start_runs_inline(running, threads, tid) == running

\* thread.start(): the thread runs on its own; tid names the Thread object
thread_start(running, threads, tid) ==
    running \cup {[t \in DOMAIN j \cup {"tid"} |-> IF t = "tid" THEN tid ELSE j[t]] :
                  j \in threads}

----------------------------------------------------------------------------
(* One handling as the sequence of its accesses to the conversation table  *)
(* and to the Slack client, in the order of the code: what a handling has  *)
(* done when it is cut short by an exception, and where another thread can *)
(* run in between                                                          *)

\* what a handling knows: its event, the conversation's state and thread_ts
\* as it read them, the base reference as it read it, the accesses it made
Handler(id, event, pc, state, conv, base, done) ==
    [id |-> id, event |-> event, pc |-> pc, state |-> state, conv |-> conv, base |-> base,
     done |-> done]

\* "linkedin.com/in/" in self._clean_slack_url(text.strip())
is_reference(text) == is_linkedin_url(clean_slack_url(Strip(text)))

\* the accesses of start_conversation (state "none") and of each branch of
\* _continue_conversation, in the order of the statements
accesses(state, text) ==
    CASE state = "none" -> <<"post", "store_row">>
      [] state = "awaiting_confirmation" ->
            IF is_affirmative(Strip(Lower(text)))
            THEN <<"post", "set_state">> ELSE <<"post", "del_row">>
      [] state = "awaiting_linkedin_url" ->
            IF is_reference(text) THEN <<"set_base", "post", "set_state">> ELSE <<"post">>
      [] state = "awaiting_comparison_choice" ->
            IF Strip(text) = <<"1">> THEN <<"post", "set_state">>
            ELSE IF Strip(text) = <<"2">>
            THEN <<"get_base", "post", "start_thread", "del_row">>
            ELSE <<"post">>
      [] state = "awaiting_comparison_url" ->
            IF is_reference(text)
            THEN <<"get_base", "post", "start_thread", "del_row">> ELSE <<"post">>
      [] OTHER -> <<>>

\* the text of the branch's chat_postMessage
reply(state, text) ==
    CASE state = "none" -> "greeting"
      [] state = "awaiting_confirmation" ->
            IF is_affirmative(Strip(Lower(text))) THEN "ask_linkedin_url" ELSE "no_problem"
      [] state = "awaiting_linkedin_url" ->
            IF is_reference(text) THEN "ask_choice" ELSE "invalid_url"
      [] state = "awaiting_comparison_choice" ->
            IF Strip(text) = <<"1">> THEN "ask_comparison_url"
            ELSE IF Strip(text) = <<"2">> THEN "searching" ELSE "invalid_choice"
      [] OTHER -> IF is_reference(text) THEN "comparing" ELSE "invalid_url"

\* the state that the branch assigns
next_state(state) ==
    CASE state = "awaiting_confirmation" -> "awaiting_linkedin_url"
      [] state = "awaiting_linkedin_url" -> "awaiting_comparison_choice"
      [] OTHER -> "awaiting_comparison_url"

\* the thread that the branch makes
made_thread(h) ==
    IF h.state = "awaiting_comparison_choice"
    THEN Thread("_find_similar_profiles", h.event.channel, h.event.user, h.base, None, h.conv)
    ELSE Thread("_compare_specific_profiles", h.event.channel, h.event.user, h.base,
                clean_slack_url(Strip(h.event.text)), h.conv)

Accessed(raises, convs, base, posts, threads) ==
    [raises |-> raises, conversations |-> convs, base |-> base, posts |-> posts,
     started |-> threads]

\* one access of the handling h on the table convs: self.conversations[user_id]
\* raises KeyError when the user has no row, in an assignment to one of its
\* keys, in .get on it and in del
access(a, h, convs) ==
    LET e == h.event
        present == e.user \in DOMAIN convs
    IN  CASE a = "post" ->
                Accessed("", convs, h.base, <<Post(e.channel, reply(h.state, e.text))>>, {})
          [] a = "store_row" ->
                Accessed("", Put(convs, e.user, [channel_id |-> e.channel, thread_ts |-> e.ts,
                                                 state |-> "awaiting_confirmation"]),
                         h.base, <<>>, {})
          [] a = "start_thread" -> Accessed("", convs, h.base, <<>>, {made_thread(h)})
          [] a \in {"set_state", "set_base", "get_base", "del_row"} /\ ~present ->
                Accessed("KeyError", convs, h.base, <<>>, {})
          [] a = "set_state" ->
                Accessed("", SetState(convs, e.user, next_state(h.state)), h.base, <<>>, {})
          [] a = "set_base" ->
                Accessed("", [convs EXCEPT ![e.user] =
                                 Put(@, "base_linkedin_url", clean_slack_url(Strip(e.text)))],
                         h.base, <<>>, {})
          [] a = "get_base" ->
                Accessed("", convs, Get(convs[e.user], "base_linkedin_url"), <<>>, {})
          [] OTHER -> Accessed("", Del(convs, e.user), h.base, <<>>, {})

\* "user_id in self.conversations" and, in _continue_conversation, the reads
\* of the row's state and thread_ts
entered(id, m, convs) ==
    IF m.user \in DOMAIN convs
    THEN Handler(id, m, "run", convs[m.user].state, convs[m.user].thread_ts, None, 0)
    ELSE Handler(id, m, "run", "none", 0, None, 0)

\* a handling by one thread with no other thread in between; `send` is what
\* chat_postMessage does: it returns ("ok") or raises the named exception
RECURSIVE handle_from(_, _, _)
handle_from(h, send, sofar) ==
    LET todo == accesses(h.state, h.event.text)
        a == todo[h.done + 1]
        r == access(a, h, sofar.conversations)
    IN  IF h.done >= Len(todo) THEN sofar
        ELSE IF a = "post" /\ send # "ok" THEN [sofar EXCEPT !.raises = send]
        ELSE IF r.raises # "" THEN [sofar EXCEPT !.raises = r.raises]
        ELSE handle_from([h EXCEPT !.done = @ + 1, !.base = r.base], send,
                         Accessed("", r.conversations, r.base, sofar.posts \o r.posts,
                                  sofar.started \cup r.started))

handle(m, convs, send) ==
    handle_from(entered(0, m, convs), send, Accessed("", convs, None, <<>>, {}))

----------------------------------------------------------------------------
(* Python values and exceptions                                            *)

PyDict(items) == [type |-> "dict", items |-> items, value |-> 0]
PyInt(n) == [type |-> "int", items |-> <<>>, value |-> n]
PyNone == [type |-> "NoneType", items |-> <<>>, value |-> 0]

\* bool(v), as in "if result:" and "if not result:"
Truthy(v) ==
    CASE v.type = "dict" -> DOMAIN v.items # {}
      [] v.type = "int" -> v.value # 0
      [] OTHER -> FALSE

\* a call returns v, or raises the exception named error
Returned(v) == [raises |-> FALSE, value |-> v, error |-> ""]
Raised(error) == [raises |-> TRUE, value |-> PyNone, error |-> error]

----------------------------------------------------------------------------
(* The texts of the inference backend.  The commas and the whitespace      *)
(* between tokens are left out.                                            *)

TokOpen == "{"
TokClose == "}"
\* "similarity_score": 82, "explanation": "alike"    (members of an object)
TokScore82 == "s82"
\* "similarity_score": 77, "explanation": "close"
TokScore77 == "s77"
\* "similarity_score": 150, "explanation": "same"
TokScore150 == "s150"
\* "similarity_score": -5, "explanation": "apart"
TokScoreNeg == "s-5"
\* "note": "n"    (a member that is no score)
TokNote == "note"
\* a word of prose
TokProse == "prose"
\* the number 42
TokNumber == "42"
\* the lines "Similarity Score: 65%" and "Explanation:" of the pairwise prompt
TokScoreLine == "Similarity Score: 65%"
\* the same line in lower case, with another number
TokScoreLineLower == "similarity score: 40%"
TokExplanationLine == "Explanation:"

\* the members a member token stands for
MemberItems(tok) ==
    CASE tok = TokScore82 -> [similarity_score |-> 82, explanation |-> <<"alike">>]
      [] tok = TokScore77 -> [similarity_score |-> 77, explanation |-> <<"close">>]
      [] tok = TokScore150 -> [similarity_score |-> 150, explanation |-> <<"same">>]
      [] tok = TokScoreNeg -> [similarity_score |-> 0 - 5, explanation |-> <<"apart">>]
      [] tok = TokNote -> [note |-> "n"]
      [] OTHER -> <<>>
MemberTokens == {TokScore82, TokScore77, TokScore150, TokScoreNeg, TokNote}

\* dict.update
Update(d, e) == [k \in DOMAIN d \cup DOMAIN e |-> IF k \in DOMAIN e THEN e[k] ELSE d[k]]

RECURSIVE Members(_)
\* the dict of the members in toks, a later member replacing an earlier one
Members(toks) ==
    IF toks = <<>> THEN <<>>
    ELSE Update(Members(SubSeq(toks, 1, Len(toks) - 1)), MemberItems(toks[Len(toks)]))

\* json.loads: an object, or a number, or json.JSONDecodeError
json_loads(text) ==
    IF /\ Len(text) >= 2
       /\ text[1] = TokOpen
       /\ text[Len(text)] = TokClose
       /\ \A i \in 2..(Len(text) - 1) : text[i] \in MemberTokens
    THEN Returned(PyDict(Members(SubSeq(text, 2, Len(text) - 1))))
    ELSE IF text = <<TokNumber>>
    THEN Returned(PyInt(42))
    ELSE Raised("JSONDecodeError")

\* re.search(r'({[\s\S]*})', text): from the first "{" to the last "}" after
\* it; the empty sequence when there is no match
search_json_pattern(text) ==
    LET opens == {i \in 1..Len(text) : text[i] = TokOpen}
    IN  IF opens = {} THEN <<>>
        ELSE LET first == CHOOSE i \in opens : \A j \in opens : i <= j
                 closes == {i \in (first + 1)..Len(text) : text[i] = TokClose}
             IN  IF closes = {} THEN <<>>
                 ELSE SubSeq(text, first, CHOOSE i \in closes : \A j \in closes : j <= i)

----------------------------------------------------------------------------
(* The similarity pipeline (SimilarityCalculator)                          *)

\* what self.client.messages.create answers: a text, or an exception (also the
\* AttributeError of a calculator that was built without an API key).  The
\* backend is asked at temperature 0: within one call of the pipeline its answer
\* is a function of the profile that is compared with the base profile.
Answer(text) == [raises |-> FALSE, text |-> text]
BackendError == [raises |-> TRUE, text |-> <<>>]

\* the profile URLs of the provider's records
UrlBase == "linkedin.com/in/a"
UrlOther == "linkedin.com/in/b"
UrlThird == "linkedin.com/in/c"
\* the backend that gives the same answer for every profile
Always(answer) == [url \in {"", UrlBase, UrlOther, UrlThird} |-> answer]

\* the result "if all else fails"
NeutralResult ==
    PyDict([similarity_score |-> 50,
            explanation |-> <<"Unable to calculate precise similarity.">>])
\* the result of the outer "except Exception"
TechnicalErrorResult ==
    PyDict([similarity_score |-> 50,
            explanation |-> <<"Could not calculate similarity due to a technical error.">>])

\* variant: a parsed score is brought into 0..100
_calculate_similarity_clamped(answer) ==
    LET clamp(v) ==
            IF v.type = "dict" /\ "similarity_score" \in DOMAIN v.items
            THEN PyDict([v.items EXCEPT !.similarity_score =
                            IF @ < 0 THEN 0 ELSE IF @ > 100 THEN 100 ELSE @])
            ELSE v
        response_content == answer.text
        whole == json_loads(response_content)
        json_str == search_json_pattern(response_content)
    IN  IF answer.raises THEN TechnicalErrorResult
        ELSE IF ~whole.raises THEN clamp(whole.value)
        ELSE IF json_str # <<>> /\ ~json_loads(json_str).raises
        THEN clamp(json_loads(json_str).value)
        ELSE NeutralResult

\* _calculate_similarity, from the call of the backend on
_calculate_similarity(answer) ==
    IF answer.raises THEN TechnicalErrorResult
    ELSE LET response_content == answer.text
             whole == json_loads(response_content)
             json_str == search_json_pattern(response_content)
         IN  IF ~whole.raises THEN whole.value
             ELSE IF json_str # <<>> /\ ~json_loads(json_str).raises
             THEN json_loads(json_str).value
             ELSE NeutralResult

\* the tokens in which re.search finds the word "explanation", and what
\* follows the word inside the token
HasExplanationWord(tok) ==
    tok \in {TokExplanationLine, TokScore82, TokScore77, TokScore150, TokScoreNeg}
AfterExplanationWord(tok) ==
    CASE tok = TokScore82 -> <<"\": \"alike\"">>
      [] tok = TokScore77 -> <<"\": \"close\"">>
      [] tok = TokScore150 -> <<"\": \"same\"">>
      [] tok = TokScoreNeg -> <<"\": \"apart\"">>
      [] OTHER -> <<>>

\* int(score_match.group(1)) for the token in which the pattern was found
score_group(tok) == IF tok = TokScoreLine THEN 65 ELSE 40

\* variant: the patterns are matched without re.IGNORECASE
_parse_similarity_response_case_sensitive(response) ==
    LET score_match == {i \in 1..Len(response) : response[i] = TokScoreLineLower}
        explanation_match ==
            {i \in 1..Len(response) : response[i] \in MemberTokens \ {TokNote}}
    IN  PyDict([similarity_score |->
                    IF score_match # {} THEN 40 ELSE 0,
                explanation |->
                    IF explanation_match # {}
                    THEN LET at == CHOOSE i \in explanation_match :
                                        \A j \in explanation_match : i <= j
                         IN  AfterExplanationWord(response[at])
                                \o SubSeq(response, at + 1, Len(response))
                    ELSE <<"Could not parse response.">>])

\* _parse_similarity_response
_parse_similarity_response(response) ==
    LET score_match ==
            {i \in 1..Len(response) : response[i] \in {TokScoreLine, TokScoreLineLower}}
        explanation_match == {i \in 1..Len(response) : HasExplanationWord(response[i])}
        similarity_score ==
            IF score_match # {}
            THEN score_group(response[CHOOSE i \in score_match : \A j \in score_match : i <= j])
            ELSE 0
        explanation ==
            IF explanation_match # {}
            THEN LET at == CHOOSE i \in explanation_match :
                                \A j \in explanation_match : i <= j
                 IN  AfterExplanationWord(response[at])
                        \o SubSeq(response, at + 1, Len(response))
            ELSE <<"Could not parse response.">>
    IN  PyDict([similarity_score |-> similarity_score, explanation |-> explanation])

\* the error results of calculate_similarity
ErrorResult(error, explanation) ==
    PyDict([error |-> error, similarity_score |-> 0, explanation |-> <<explanation>>])

\* a profile record of the provider: None, or a dict with "success" and
\* person.linkedInUrl
NoProfile == [is_none |-> TRUE, success |-> FALSE, linkedInUrl |-> ""]
FailedProfile == [is_none |-> FALSE, success |-> FALSE, linkedInUrl |-> ""]
Profile(url) == [is_none |-> FALSE, success |-> TRUE, linkedInUrl |-> url]
\* variant: only None counts as absent
IsAbsent_none_only(profile) == profile.is_none

\* "not profile or not profile.get('success', False)"
IsAbsent(profile) == profile.is_none \/ ~profile.success

\* calculate_similarity
calculate_similarity(api_key, base_profile, compare_profile, answer) ==
    IF ~api_key
    THEN ErrorResult("Anthropic API key not set",
                     "Cannot calculate similarity without Anthropic API key.")
    ELSE IF IsAbsent(base_profile)
    THEN ErrorResult("Invalid base profile data", "Base user profile data is invalid.")
    ELSE IF IsAbsent(compare_profile)
    THEN ErrorResult("Invalid compare profile data", "Compare user profile data is invalid.")
    ELSE IF answer.raises
    THEN ErrorResult("Error calling Anthropic API",
                     "An error occurred while calculating similarity.")
    ELSE LET similarity_data == _parse_similarity_response(answer.text)
         IN  PyDict([similarity_score |-> similarity_data.items.similarity_score,
                     explanation |-> similarity_data.items.explanation,
                     base_user |-> base_profile.linkedInUrl,
                     compare_user |-> compare_profile.linkedInUrl,
                     raw_response |-> answer.text])

\* _extract_user_data: None, or the user data, of which the model keeps the
\* profile's URL
NoUserData == [is_none |-> TRUE, linkedin_url |-> ""]
_extract_user_data(profile) ==
    IF IsAbsent(profile) THEN NoUserData
    ELSE [is_none |-> FALSE, linkedin_url |-> profile.linkedInUrl]

\* variant: a candidate is never taken for the base profile
is_same_profile_never(base_user, compare_user) == FALSE

\* base_user.get("linkedin_url") == compare_user.get("linkedin_url")
is_same_profile(base_user, compare_user) ==
    base_user.linkedin_url = compare_user.linkedin_url

\* key=lambda x: x.get("similarity_score", 0)
sort_key(result) ==
    IF "similarity_score" \in DOMAIN result.items THEN result.items.similarity_score ELSE 0

\* the place of x in a list sorted by falling key, behind the entries of equal key
InsertAt(sorted, x, at) ==
    SubSeq(sorted, 1, at) \o <<x>> \o SubSeq(sorted, at + 1, Len(sorted))

RECURSIVE sort_reverse_ties_reversed(_)
\* variant: sorted by rising score and then reversed, which turns ties around
sort_reverse_ties_reversed(results) ==
    IF results = <<>> THEN <<>>
    ELSE LET before == sort_reverse_ties_reversed(SubSeq(results, 1, Len(results) - 1))
             x == results[Len(results)]
         IN  InsertAt(before, x,
                      Cardinality({i \in 1..Len(before) : sort_key(before[i]) > sort_key(x)}))

RECURSIVE sort_reverse(_)
\* results.sort(key=..., reverse=True): stable, entries of equal key keep their order
sort_reverse(results) ==
    IF results = <<>> THEN <<>>
    ELSE LET before == sort_reverse(SubSeq(results, 1, Len(results) - 1))
             x == results[Len(results)]
         IN  InsertAt(before, x,
                      Cardinality({i \in 1..Len(before) : sort_key(before[i]) >= sort_key(x)}))

\* what a call of the pipeline did: raised or returned value, and (history) the
\* profiles for which the backend was called
Outcome(raises, error, value, calls) ==
    [raises |-> raises, error |-> error, value |-> value, calls |-> calls]

RECURSIVE compare_each(_, _, _, _)
\* find_similar_profiles, "for comparison_profile in comparison_profiles"
compare_each(base_user, comparison_profiles, backend, acc) ==
    IF comparison_profiles = <<>> THEN acc
    ELSE LET compare_user == _extract_user_data(Head(comparison_profiles))
             rest == Tail(comparison_profiles)
         IN  IF compare_user.is_none THEN compare_each(base_user, rest, backend, acc)
             ELSE IF is_same_profile(base_user, compare_user)
             THEN compare_each(base_user, rest, backend, acc)
             ELSE LET result == _calculate_similarity(backend[compare_user.linkedin_url])
                      called == Append(acc.calls, compare_user.linkedin_url)
                  IN  IF ~Truthy(result)
                      THEN compare_each(base_user, rest, backend,
                                        [acc EXCEPT !.calls = called])
                      ELSE IF result.type # "dict"
                      \* result["compare_user"] = compare_user
                      THEN Outcome(TRUE, "TypeError", <<>>, called)
                      ELSE compare_each(base_user, rest, backend,
                               Outcome(FALSE, "",
                                       Append(acc.value,
                                              PyDict(Put(result.items, "compare_user",
                                                         compare_user))),
                                       called))

\* find_similar_profiles
find_similar_profiles(base_profile, comparison_profiles, limit, backend) ==
    IF base_profile.is_none \/ comparison_profiles = <<>>
    THEN Outcome(FALSE, "", <<>>, <<>>)
    ELSE LET base_user == _extract_user_data(base_profile)
         IN  IF base_user.is_none THEN Outcome(FALSE, "", <<>>, <<>>)
             ELSE LET looped == compare_each(base_user, comparison_profiles, backend,
                                             Outcome(FALSE, "", <<>>, <<>>))
                  IN  IF looped.raises THEN looped
                      ELSE LET results == sort_reverse(looped.value)
                           IN  [looped EXCEPT !.value =
                                    SubSeq(results, 1, IF Len(results) < limit
                                                       THEN Len(results) ELSE limit)]

\* compare_profiles
compare_profiles(base_profile, comparison_profile, backend) ==
    IF base_profile.is_none \/ comparison_profile.is_none
    THEN Outcome(FALSE, "", PyNone, <<>>)
    ELSE LET base_user == _extract_user_data(base_profile)
             compare_user == _extract_user_data(comparison_profile)
         IN  IF base_user.is_none \/ compare_user.is_none
             THEN Outcome(FALSE, "", PyNone, <<>>)
             ELSE LET result == _calculate_similarity(backend[compare_user.linkedin_url])
                      called == <<compare_user.linkedin_url>>
                  IN  IF ~Truthy(result) THEN Outcome(FALSE, "", result, called)
                      ELSE IF result.type # "dict"
                      \* result["base_user"] = base_user
                      THEN Outcome(TRUE, "TypeError", PyNone, called)
                      ELSE Outcome(FALSE, "",
                                   PyDict(Put(Put(result.items, "base_user", base_user),
                                              "compare_user", compare_user)),
                                   called)

----------------------------------------------------------------------------
(* The job threads                                                         *)

\* what get_linkedin_profile answers: a profile record or None, or an exception
\* that is no requests.RequestException (response.json() on a broken body)
ProviderAnswer(profile) == [raises |-> FALSE, profile |-> profile]
ProviderError == [raises |-> TRUE, profile |-> NoProfile]

\* a member of users_list, and what users_list answers; get_users turns a
\* SlackApiError into the empty list and lets other exceptions pass
RawUser(id, deleted, is_bot, real_name) ==
    [id |-> id, deleted |-> deleted, is_bot |-> is_bot, real_name |-> real_name]
DirectoryAnswer(members) == [raises |-> FALSE, members |-> members]
DirectoryError == [raises |-> TRUE, members |-> <<>>]

\* clean_users: deleted users are skipped
clean_users(raw_users) == SelectSeq(raw_users, LAMBDA u : ~u.deleted)

\* [:10] and limit=5 of _find_similar_profiles
SampleSize == 10
ResultLimit == 5

\* s[:n]
Take(s, n) == SubSeq(s, 1, IF Len(s) < n THEN Len(s) ELSE n)

\* variant: the sample is not cut
sample_users_uncut(slack_users) ==
    SelectSeq(slack_users, LAMBDA u : ~u.is_bot /\ u.real_name # "")

\* [user for user in slack_users if not user.is_bot and user.real_name][:10]
sample_users(slack_users) ==
    Take(SelectSeq(slack_users, LAMBDA u : ~u.is_bot /\ u.real_name # ""), SampleSize)

RECURSIVE resolve_each(_, _)
\* "for slack_user in slack_users": the profiles found by name; an exception
\* of a lookup is caught in the loop
resolve_each(slack_users, lookup) ==
    IF slack_users = <<>> THEN <<>>
    ELSE LET slack_user == Head(slack_users)
             answer == lookup[slack_user.id]
             rest == resolve_each(Tail(slack_users), lookup)
         IN  IF ~answer.raises /\ ~IsAbsent(answer.profile)
             THEN <<[slack_user |-> slack_user, linkedin_profile |-> answer.profile]>> \o rest
             ELSE rest

\* a message of a job: its kind, and the reference that it names
Msg(kind, ref) == [kind |-> kind, ref |-> ref]
\* the message of a job's outer "except Exception"
ErrorMsg == Msg("error", <<>>)
\* a message with results: the scores that it displays, each as the text that
\* the f-string makes of it
ResultMsg(kind, scores) == [kind |-> kind, ref |-> <<>>, scores |-> scores]
\* f"{result.get('similarity_score', 'N/A')}"
format_score(result) ==
    IF "similarity_score" \in DOMAIN result.items
    THEN ToString(result.items.similarity_score)
    ELSE "N/A"
\* the results for which "for profile_data in linkedin_profiles" finds the
\* Slack user
has_slack_user(result, linkedin_profiles) ==
    \E p \in 1..Len(linkedin_profiles) :
        linkedin_profiles[p].linkedin_profile.linkedInUrl
            = result.items.compare_user.linkedin_url
\* the scores of the message of _find_similar_profiles, one per result that
\* has a Slack user
rendered_scores(results, linkedin_profiles) ==
    LET shown == SelectSeq(results, LAMBDA r : has_slack_user(r, linkedin_profiles))
    IN  [i \in 1..Len(shown) |-> format_score(shown[i])]

\* "for profile_data in linkedin_profiles: if ... == ...: slack_user = ...;
\* break": the member of the first entry whose profile has the result's
\* identifier
named_member(result, linkedin_profiles) ==
    LET p == CHOOSE p \in 1..Len(linkedin_profiles) :
                 /\ linkedin_profiles[p].linkedin_profile.linkedInUrl
                       = result.items.compare_user.linkedin_url
                 /\ \A q \in 1..(p - 1) :
                       linkedin_profiles[q].linkedin_profile.linkedInUrl
                           # result.items.compare_user.linkedin_url
    IN  linkedin_profiles[p].slack_user.id
\* the members that the entries of the message name, one per result that has
\* a Slack user
rendered_members(results, linkedin_profiles) ==
    LET shown == SelectSeq(results, LAMBDA r : has_slack_user(r, linkedin_profiles))
    IN  [i \in 1..Len(shown) |-> named_member(shown[i], linkedin_profiles)]

\* "for i, result in enumerate(results, 1)" raises KeyError at
\* result['similarity_score'] for a result that has a Slack user and no score
render_raises(results, linkedin_profiles) ==
    \E i \in 1..Len(results) :
        /\ \E p \in 1..Len(linkedin_profiles) :
              /\ linkedin_profiles[p].linkedin_profile.linkedInUrl # ""
              /\ linkedin_profiles[p].linkedin_profile.linkedInUrl
                    = results[i].items.compare_user.linkedin_url
        /\ "similarity_score" \notin DOMAIN results[i].items

\* what a job did up to its first chat_postMessage: the references it fetched,
\* whether it listed the directory, the members it looked up, whether and how
\* the pipeline was called, and the messages it will try to send in turn (the
\* next one when the post of the one before raised)
Body(fetched, listed, attempted, called, pipeline, attempts) ==
    [fetched |-> fetched, listed |-> listed, attempted |-> attempted, called |-> called,
     pipeline |-> pipeline, attempts |-> attempts]
NoOutcome == Outcome(FALSE, "", <<>>, <<>>)

\* _find_similar_profiles, up to its first chat_postMessage
_find_similar_profiles(linkedin_url, env) ==
    IF env.base.raises
    THEN Body(<<"base">>, FALSE, <<>>, FALSE, NoOutcome, <<ErrorMsg>>)
    ELSE IF IsAbsent(env.base.profile)
    THEN Body(<<"base">>, FALSE, <<>>, FALSE, NoOutcome,
              <<Msg("profile_not_retrieved", <<>>), ErrorMsg>>)
    ELSE IF env.directory.raises
    THEN Body(<<"base">>, TRUE, <<>>, FALSE, NoOutcome, <<ErrorMsg>>)
    ELSE LET slack_users == sample_users(clean_users(env.directory.members))
             attempted == [i \in 1..Len(slack_users) |-> slack_users[i].id]
             linkedin_profiles == resolve_each(slack_users, env.lookup)
         IN  IF linkedin_profiles = <<>>
             THEN Body(<<"base">>, TRUE, attempted, FALSE, NoOutcome,
                       <<Msg("no_linkedin_profiles", <<>>), ErrorMsg>>)
             ELSE LET results ==
                          find_similar_profiles(
                              env.base.profile,
                              [i \in 1..Len(linkedin_profiles) |->
                                  linkedin_profiles[i].linkedin_profile],
                              ResultLimit, env.backend)
                  IN  Body(<<"base">>, TRUE, attempted, TRUE, results,
                           IF results.raises
                           THEN <<Msg("similarity_error", <<>>), ErrorMsg>>
                           ELSE IF results.value = <<>>
                           THEN <<Msg("no_similar_profiles", <<>>), ErrorMsg>>
                           ELSE IF render_raises(results.value, linkedin_profiles)
                           THEN <<ErrorMsg>>
                           ELSE <<ResultMsg("similar_profiles",
                                            rendered_scores(results.value,
                                                            linkedin_profiles)),
                                  ErrorMsg>>)

\* variant: the comparison profile is fetched before the base profile is tested
_compare_specific_profiles_fetches_both(base_url, comparison_url, env) ==
    IF env.base.raises \/ env.comparison.raises
    THEN Body(<<"base", "comparison">>, FALSE, <<>>, FALSE, NoOutcome, <<ErrorMsg>>)
    ELSE IF IsAbsent(env.comparison.profile)
    THEN Body(<<"base", "comparison">>, FALSE, <<>>, FALSE, NoOutcome,
              <<Msg("profile_not_retrieved", comparison_url), ErrorMsg>>)
    ELSE IF IsAbsent(env.base.profile)
    THEN Body(<<"base", "comparison">>, FALSE, <<>>, FALSE, NoOutcome,
              <<Msg("profile_not_retrieved", base_url), ErrorMsg>>)
    ELSE LET result == compare_profiles(env.base.profile, env.comparison.profile,
                                        env.backend)
         IN  Body(<<"base", "comparison">>, FALSE, <<>>, TRUE, result,
                  IF result.raises
                  THEN <<Msg("similarity_error", <<>>), ErrorMsg>>
                  ELSE IF ~Truthy(result.value)
                  THEN <<Msg("no_similarity", <<>>), Msg("similarity_error", <<>>), ErrorMsg>>
                  ELSE <<ResultMsg("comparison_result", <<format_score(result.value)>>),
                         Msg("similarity_error", <<>>), ErrorMsg>>)

\* _compare_specific_profiles, up to its first chat_postMessage; the posts of
\* the inner "try" are followed by those of its "except" and of the outer one
_compare_specific_profiles(base_url, comparison_url, env) ==
    IF env.base.raises
    THEN Body(<<"base">>, FALSE, <<>>, FALSE, NoOutcome, <<ErrorMsg>>)
    ELSE IF IsAbsent(env.base.profile)
    THEN Body(<<"base">>, FALSE, <<>>, FALSE, NoOutcome,
              <<Msg("profile_not_retrieved", base_url), ErrorMsg>>)
    ELSE IF env.comparison.raises
    THEN Body(<<"base", "comparison">>, FALSE, <<>>, FALSE, NoOutcome, <<ErrorMsg>>)
    ELSE IF IsAbsent(env.comparison.profile)
    THEN Body(<<"base", "comparison">>, FALSE, <<>>, FALSE, NoOutcome,
              <<Msg("profile_not_retrieved", comparison_url), ErrorMsg>>)
    ELSE LET result == compare_profiles(env.base.profile, env.comparison.profile,
                                        env.backend)
         IN  Body(<<"base", "comparison">>, FALSE, <<>>, TRUE, result,
                  IF result.raises
                  THEN <<Msg("similarity_error", <<>>), ErrorMsg>>
                  ELSE IF ~Truthy(result.value)
                  THEN <<Msg("no_similarity", <<>>), Msg("similarity_error", <<>>), ErrorMsg>>
                  ELSE <<ResultMsg("comparison_result", <<format_score(result.value)>>),
                         Msg("similarity_error", <<>>), ErrorMsg>>)

\* the target of a thread
run_target(j, env) ==
    IF j.target = "_find_similar_profiles"
    THEN _find_similar_profiles(j.base_url, env)
    ELSE _compare_specific_profiles(j.base_url, j.comparison_url, env)

\* chat_postMessage raises for the first failing_posts calls of the job: the
\* message that gets through, if one does
delivered(attempts, failing_posts) ==
    IF failing_posts < Len(attempts) THEN <<attempts[failing_posts + 1]>> ELSE <<>>
\* the last handler's own post raised, and the exception leaves the target
propagates(attempts, failing_posts) == failing_posts >= Len(attempts)

----------------------------------------------------------------------------
(* Instrumentation (ApiTracker).  Durations are in tenths of a second, so  *)
(* that 0.1 s is 1 and the threshold 1.0 s is 10.  An average is the      *)
(* fraction total / count, and quartiles are in hundredths of a tenth, so  *)
(* that the division and the interpolation of numpy.percentile are exact.  *)

\* a sample of a call: {"timestamp", "duration_seconds", ...}; the timestamp
\* is never read
Sample(duration) == [duration_seconds |-> duration]

RECURSIVE SumDurations(_)
\* sum(call["duration_seconds"] for call in calls)
SumDurations(calls) ==
    IF calls = <<>> THEN 0
    ELSE calls[1].duration_seconds + SumDurations(Tail(calls))

\* total_duration / len(calls)
Fraction(num, den) == [num |-> num, den |-> den]

\* an entry of api_stats: the statistics of one operation, and the list of
\* samples under the key "calls" or "last_10_calls" (key "" when there is none)
StatsEntry(api, total_calls, avg_duration, total_duration, key, calls) ==
    [api |-> api, is_stats |-> TRUE, total_calls |-> total_calls,
     avg_duration_seconds |-> avg_duration, total_duration_seconds |-> total_duration,
     key |-> key, calls |-> calls]
\* an entry that is no dict with "total_calls"
NestedEntry(api) ==
    [api |-> api, is_stats |-> FALSE, total_calls |-> 0,
     avg_duration_seconds |-> Fraction(0, 1), total_duration_seconds |-> 0, key |-> "", calls |-> <<>>]

RECURSIVE order_reverse(_)
\* the places of keys in the order of list.sort(key=..., reverse=True), which
\* is stable
order_reverse(keys) ==
    IF keys = <<>> THEN <<>>
    ELSE LET before == order_reverse(SubSeq(keys, 1, Len(keys) - 1))
         IN  InsertAt(before, Len(keys),
                      Cardinality({i \in 1..Len(before) : keys[before[i]] >= keys[Len(keys)]}))

RECURSIVE Denominators(_)
\* the product of the denominators of the averages
Denominators(entries) ==
    IF entries = <<>> THEN 1
    ELSE entries[1].avg_duration_seconds.den * Denominators(Tail(entries))

\* _calculate_summary: the two sorted lists; the averages are compared over
\* their common denominator
_calculate_summary(api_stats) ==
    LET entries == SelectSeq(api_stats, LAMBDA stats : stats.is_stats)
        by_volume == order_reverse([i \in 1..Len(entries) |-> entries[i].total_calls])
        by_avg == order_reverse(
                      [i \in 1..Len(entries) |->
                          entries[i].avg_duration_seconds.num
                              * (Denominators(entries)
                                   \div entries[i].avg_duration_seconds.den)])
    IN  [apis_by_volume |->
            [i \in 1..Len(entries) |->
                [api |-> entries[by_volume[i]].api, calls |-> entries[by_volume[i]].total_calls]],
         apis_by_avg_duration |->
            [i \in 1..Len(entries) |->
                [api |-> entries[by_avg[i]].api,
                 avg_duration_seconds |-> entries[by_avg[i]].avg_duration_seconds]]]

\* "> 1.0" seconds and "> 10" calls of analyze_api_performance
SlowThreshold == 10
HighVolumeThreshold == 10

\* variant: an average of 1.0 counts as slow
is_slow_inclusive(api) ==
    api.avg_duration_seconds.num >= SlowThreshold * api.avg_duration_seconds.den

\* if api["avg_duration_seconds"] > 1.0
is_slow(api) ==
    api.avg_duration_seconds.num > SlowThreshold * api.avg_duration_seconds.den
\* if api["calls"] > 10
is_high_volume(api) == api.calls > HighVolumeThreshold

Recommendation(api, issue) == [api |-> api, issue |-> issue]

\* analyze_api_performance
analyze_api_performance(api_stats) ==
    LET summary == _calculate_summary(api_stats)
        slow_apis == SelectSeq(summary.apis_by_avg_duration, is_slow)
        high_volume_apis == SelectSeq(summary.apis_by_volume, is_high_volume)
    IN  [slow_apis |-> slow_apis,
         high_volume_apis |-> high_volume_apis,
         recommendations |->
            [i \in 1..Len(slow_apis) |->
                Recommendation(slow_apis[i].api, "Slow response time")]
            \o [i \in 1..Len(high_volume_apis) |->
                Recommendation(high_volume_apis[i].api, "High call volume")]]

RECURSIVE sorted_durations(_)
\* np.sort: rising
sorted_durations(durations) ==
    IF durations = <<>> THEN <<>>
    ELSE LET before == sorted_durations(SubSeq(durations, 1, Len(durations) - 1))
             x == durations[Len(durations)]
         IN  InsertAt(before, x, Cardinality({i \in 1..Len(before) : before[i] <= x}))

\* np.percentile(durations, q), times 100: the linear interpolation between
\* the two samples around the place (n - 1) * q / 100
percentile(durations, q) ==
    LET sorted == sorted_durations(durations)
        place == (Len(sorted) - 1) * q
        below == (place \div 100) + 1
        above == IF below < Len(sorted) THEN below + 1 ELSE below
    IN  sorted[below] * (100 - (place % 100)) + sorted[above] * (place % 100)

\* variant: no sample is an outlier when the quartiles coincide
outlier_count_spread(durations) ==
    LET q1 == percentile(durations, 25)
        q3 == percentile(durations, 75)
    IN  IF q1 = q3 THEN 0
        ELSE Cardinality({i \in 1..Len(durations) :
                \/ 2 * 100 * durations[i] < 2 * q1 - 3 * (q3 - q1)
                \/ 2 * 100 * durations[i] > 2 * q3 + 3 * (q3 - q1)})

\* len(durations[(durations < q1 - 1.5 * iqr) | (durations > q3 + 1.5 * iqr)])
outlier_count(durations) ==
    LET q1 == percentile(durations, 25)
        q3 == percentile(durations, 75)
    IN  Cardinality({i \in 1..Len(durations) :
            \/ 2 * 100 * durations[i] < 2 * q1 - 3 * (q3 - q1)
            \/ 2 * 100 * durations[i] > 2 * q3 + 3 * (q3 - q1)})

\* analyze_response_time_distribution(api_stats, api_name): the error that it
\* returns, or the operations that it analysed with their outlier counts;
\* api_name "" is None; numpy, matplotlib and scipy are installed
analyze_response_time_distribution(api_stats, api_name) ==
    LET named == SelectSeq(api_stats, LAMBDA stats :
                              stats.api = api_name /\ stats.is_stats /\ stats.key = "calls")
        apis_to_analyze ==
            IF api_name # "" THEN named
            ELSE SelectSeq(api_stats, LAMBDA stats : stats.is_stats /\ stats.total_calls > 0)
        analysed == SelectSeq(apis_to_analyze, LAMBDA stats : stats.calls # <<>>)
    IN  IF api_name # "" /\ named = <<>>
        THEN [error |-> "API not found", apis_analyzed |-> <<>>, outliers |-> <<>>]
        ELSE [error |-> "",
              apis_analyzed |-> [i \in 1..Len(analysed) |-> analysed[i].api],
              outliers |->
                [i \in 1..Len(analysed) |->
                    outlier_count([k \in 1..Len(analysed[i].calls) |->
                                      analysed[i].calls[k].duration_seconds])]]

\* get_api_call_stats, for one operation: nothing for an empty list, else the
\* statistics with the list itself or its last 10 samples
get_api_call_stats(api_type, calls) ==
    IF calls = <<>> THEN <<>>
    ELSE LET total_duration == SumDurations(calls)
         IN  <<StatsEntry(api_type, Len(calls), Fraction(total_duration, Len(calls)),
                          total_duration,
                          "last_10_calls",
                          IF Len(calls) > 10 THEN SubSeq(calls, Len(calls) - 9, Len(calls))
                          ELSE calls)>>

----------------------------------------------------------------------------
(* Inbound messages                                                        *)

OwnTs == {0}                    \* the id of the bot's own message in a window
Ids == OwnTs \cup (1..(MaxMsgs + MaxDeepMsgs))
NextTs == Cardinality(processed_messages \ OwnTs) + 1

Message(ts, user, text, channel, channel_type, bot_id) ==
    [ts |-> ts, user |-> user, text |-> text, channel |-> channel,
     channel_type |-> channel_type, bot_id |-> bot_id]

FreshTs(max) == {n \in {NextTs} : n <= max}
SeenTs == processed_messages \ OwnTs

\* messages of users in their direct-message channel with the bot
UserMessages(tss, texts, flags) ==
    {Message(ts, u, t, DM(u), "im", b) : ts \in tss, u \in Users, t \in texts, b \in flags}

\* the bot's own replies, as the channel history and the event stream list them
OwnMessages ==
    {Message(ts, BotId, <<"h", "i">>, DM(u), "im", TRUE) : ts \in OwnTs, u \in Users}

\* messages of users in a public channel
PublicMessages(tss, texts) ==
    {Message(ts, u, t, PublicChannel, "channel", FALSE) :
        ts \in tss, u \in Users, t \in texts}

\* what conversations_history of a direct-message channel can list: new messages
\* of the user, messages listed before (whose text is not read again), and
\* the bot's own
WindowMessages(texts, max) ==
    UserMessages(FreshTs(max), texts, {FALSE}) \cup UserMessages(SeenTs, {TextYes}, {FALSE})
    \cup OwnMessages

\* what a message event can carry: the same, and bot-flagged messages and
\* messages of public channels (whose text is not read)
Events(texts, max) ==
    WindowMessages(texts, max) \cup UserMessages(FreshTs(max), {TextYes}, {TRUE})
    \cup PublicMessages(FreshTs(max), {TextYes})

NoMessage == Message(0, "", <<>>, "", "", FALSE)
OnlyTs(m) == [NoMessage EXCEPT !.ts = m.ts]
Step(op, m, posts, threads) == [op |-> op, msg |-> m, posts |-> posts, started |-> threads]
\* no job has run and the pipeline was not called
NoRun == [op |-> "none"]

----------------------------------------------------------------------------
(* Actions                                                                 *)

Init ==
    /\ strategy \in {"poll", "push"}
    /\ conversations = <<>>
    /\ processed_messages = {}
    /\ jobs = {}
    /\ forwarded = [ts \in Ids |-> 0]
    /\ dispatched = {}
    /\ last = Step("init", NoMessage, <<>>, {})
    /\ run = NoRun

\* the engine is called for m, and the threads it made are started
Forward(m) ==
    \E eff \in {engine(m, conversations)} :
        /\ conversations' = eff.conversations
        /\ jobs' = thread_start(jobs, eff.started, m.ts)
        /\ forwarded' = [forwarded EXCEPT ![m.ts] = @ + 1]
        /\ dispatched' = dispatched \cup {j.conv : j \in eff.started}
        /\ last' = Step("forward", m, eff.posts, eff.started)
        /\ UNCHANGED run

\* check_direct_messages, one iteration of "for message in ...": already seen
PollSeen(m) ==
    /\ strategy = "poll"
    /\ m.ts \in processed_messages
    /\ last' = Step("seen", OnlyTs(m), <<>>, {})
    /\ UNCHANGED <<strategy, conversations, processed_messages, jobs, forwarded, dispatched,
                   run>>

\* check_direct_messages, one iteration: the bot's own message
PollOwn(m) ==
    /\ strategy = "poll"
    /\ m.ts \notin processed_messages
    /\ processed_messages' = mark_processed(processed_messages, m.ts)
    /\ m.user = BotId
    /\ last' = Step("own", NoMessage, <<>>, {})
    /\ UNCHANGED <<strategy, conversations, jobs, forwarded, dispatched, run>>

\* check_direct_messages, one iteration: a new message of a user
PollForward(m) ==
    /\ strategy = "poll"
    /\ m.ts \notin processed_messages
    /\ processed_messages' = mark_processed(processed_messages, m.ts)
    /\ m.user # BotId
    /\ Forward(m)
    /\ UNCHANGED strategy

\* _handle_message_event returns early
PushIgnored(e) ==
    /\ strategy = "push"
    /\ \/ e.bot_id \/ e.user = BotId
       \/ e.channel_type # "im"
       \/ e.ts \in processed_messages
    /\ last' = Step("ignored", NoMessage, <<>>, {})
    /\ UNCHANGED <<strategy, conversations, processed_messages, jobs, forwarded, dispatched,
                   run>>

\* _handle_message_event hands the event to the engine
PushForward(e) ==
    /\ strategy = "push"
    /\ ~(e.bot_id \/ e.user = BotId)
    /\ e.channel_type = "im"
    /\ e.ts \notin processed_messages
    /\ processed_messages' = mark_processed(processed_messages, e.ts)
    /\ Forward(e)
    /\ UNCHANGED strategy

\* the message a job thread ends with, one per path of its target
job_outcomes(target) ==
    IF target = "_find_similar_profiles"
    THEN {"profile_not_retrieved", "no_linkedin_profiles", "similarity_error",
          "no_similar_profiles", "similar_profiles", "error"}
    ELSE {"base_not_retrieved", "comparison_not_retrieved", "no_similarity",
          "comparison_result", "similarity_error", "error"}

\* variant: the job removes the conversation that its user has when it ends
JobFinish_deletes_row(j, outcome) ==
    /\ jobs' = jobs \ {j}
    /\ last' = Step("job_done", NoMessage, <<Post(j.channel_id, outcome)>>, {})
    /\ conversations' = IF j.user_id \in DOMAIN conversations
                        THEN Del(conversations, j.user_id) ELSE conversations
    /\ UNCHANGED <<strategy, processed_messages, forwarded, dispatched, run>>

\* a job thread runs to its end: it reads and writes neither the conversation
\* table nor the set of processed messages, and reports in the user's channel
JobFinish(j, outcome) ==
    /\ jobs' = jobs \ {j}
    /\ last' = Step("job_done", NoMessage, <<Post(j.channel_id, outcome)>>, {})
    /\ UNCHANGED <<strategy, conversations, processed_messages, forwarded, dispatched, run>>

\* one step of the bot whose users send `texts`, `max` distinct messages at most
Run(texts, max) ==
    \/ \E m \in WindowMessages(texts, max) : PollSeen(m)
    \/ \E m \in WindowMessages(texts, max) : PollOwn(m)
    \/ \E m \in WindowMessages(texts, max) : PollForward(m)
    \/ \E e \in Events(texts, max) : PushIgnored(e)
    \/ \E e \in Events(texts, max) : PushForward(e)
    \/ \E j \in jobs : \E outcome \in job_outcomes(j.target) : JobFinish(j, outcome)

Next == Run(Texts, MaxMsgs)

Spec == Init /\ [][Next]_vars

\* the runs in which users send only the texts that lead to a search job
JobTexts == {TextYes, TextWrappedA, TextTwo}
NextDeep == Run(JobTexts, MaxDeepMsgs)

SpecDeep == Init /\ [][NextDeep]_vars

\* the runs in which the history of a direct-message channel lists what the
\* events of that channel carry: also the messages that have a bot_id and are
\* not the bot's own (those that an app posts for a user)
InboundMessages(texts, max) ==
    {e \in Events(texts, max) : e.channel_type = "im"}
NextInbound ==
    \/ \E m \in InboundMessages(JobTexts, MaxInboundMsgs) : PollSeen(m)
    \/ \E m \in InboundMessages(JobTexts, MaxInboundMsgs) : PollOwn(m)
    \/ \E m \in InboundMessages(JobTexts, MaxInboundMsgs) : PollForward(m)
    \/ \E e \in Events(JobTexts, MaxInboundMsgs) : PushIgnored(e)
    \/ \E e \in Events(JobTexts, MaxInboundMsgs) : PushForward(e)
    \/ \E j \in jobs : \E outcome \in job_outcomes(j.target) : JobFinish(j, outcome)

SpecInbound == Init /\ [][NextInbound]_vars

----------------------------------------------------------------------------
(* The handler threads of the push strategy: the Socket Mode client runs   *)
(* _handle_socket_mode_request for each request on a thread of its pool,   *)
(* so the handlings of two events can interleave between any two of their  *)
(* accesses to the bot's state                                             *)

HandlerTexts == {TextYes, TextNo, TextWrappedA, TextOne, TextTwo}
\* the user whose messages the threads handle
HandlerUsers == {"U1"}

\* the two threads of the pool whose handlings interleave
HandlerThreads == {1, 2}

\* a thread of the pool that handles no request
IdleHandler == Handler(0, NoMessage, "idle", "none", 0, None, 0)

\* the threads of the pool, the number of messages handled before they are
\* watched and the number of distinct message ids delivered
Handlers(live, earlier, ids) ==
    [op |-> "handlers", live |-> live, earlier |-> earlier, ids |-> ids]

\* the messages that take a conversation through its states, one after the other
Earlier == <<TextYes, TextYes, TextWrappedA, TextOne>>

\* the table after the first k of them were handled, each before the next came
RECURSIVE table_after(_)
table_after(k) ==
    IF k = 0 THEN <<>>
    ELSE handle(Message(k, "U1", Earlier[k], DM("U1"), "im", FALSE), table_after(k - 1),
                "ok").conversations

\* the bot has handled some messages of the user, and no thread is at work
InitHandlers ==
    /\ strategy = "push"
    /\ \E k \in 0..Len(Earlier) :
          /\ conversations = table_after(k)
          /\ processed_messages = 1..k
          /\ forwarded = [ts \in Ids |-> IF ts \in 1..k THEN 1 ELSE 0]
          /\ run = Handlers([t \in HandlerThreads |-> IdleHandler], k, k)
    /\ jobs = {}
    /\ dispatched = {}
    /\ last = Step("init", NoMessage, <<>>, {})

Working == {t \in DOMAIN run.live : run.live[t] # IdleHandler}

\* what Slack can deliver next: a new message of the user, a message of the
\* bot or of a public channel, and once more an event that a thread is handling
Deliverable ==
    {e \in UserMessages({run.ids + 1}, HandlerTexts, {FALSE})
           \cup UserMessages({run.ids + 1}, {TextYes}, {TRUE})
           \cup PublicMessages({run.ids + 1}, {TextYes})
           \cup OwnMessages :
        /\ e.user \in HandlerUsers \cup {BotId}
        /\ e.ts <= run.earlier + MaxHandlerMsgs}
    \cup {run.live[t].event : t \in Working}

Ended(t, op, posts, threads) ==
    /\ run' = [run EXCEPT !.live[t] = IdleHandler]
    /\ last' = Step(op, run.live[t].event, posts, threads)

Moved(t, to, op, posts, threads) ==
    /\ run' = [run EXCEPT !.live[t] = to]
    /\ last' = Step(op, run.live[t].event, posts, threads)

\* a request arrives and an idle thread of the pool takes it (the first one:
\* the threads of the pool are alike)
Deliver(e) ==
    /\ \E t \in DOMAIN run.live \ Working :
          /\ \A other \in DOMAIN run.live \ Working : t <= other
          /\ run' = [run EXCEPT !.live[t] = Handler(t, e, "filter", "none", 0, None, 0),
                             !.ids = IF e.ts > @ THEN e.ts ELSE @]
    /\ last' = Step("deliver", e, <<>>, {})
    /\ UNCHANGED <<strategy, conversations, processed_messages, jobs, forwarded, dispatched>>

\* _handle_message_event up to "if message_ts in self.processed_messages"
HandlerFilter(t) ==
    /\ run.live[t].pc = "filter"
    /\ \E h \in {run.live[t]} :
          IF \/ h.event.bot_id \/ h.event.user = BotId
             \/ h.event.channel_type # "im"
             \/ h.event.ts \in processed_messages
          THEN Ended(t, "ignored", <<>>, {})
          ELSE Moved(t, [h EXCEPT !.pc = "add"], "new", <<>>, {})
    /\ UNCHANGED <<strategy, conversations, processed_messages, jobs, forwarded, dispatched>>

\* self.processed_messages.add(message_ts)
HandlerAdd(t) ==
    /\ run.live[t].pc = "add"
    /\ processed_messages' = mark_processed(processed_messages, run.live[t].event.ts)
    /\ Moved(t, [run.live[t] EXCEPT !.pc = "dispatch"], "added", <<>>, {})
    /\ UNCHANGED <<strategy, conversations, jobs, forwarded, dispatched>>

\* "if user_id in self.conversations": the engine is called for the event
HandlerDispatch(t) ==
    /\ run.live[t].pc = "dispatch"
    /\ \E h \in {run.live[t]} :
          /\ forwarded' = [forwarded EXCEPT ![h.event.ts] = @ + 1]
          /\ Moved(t, [h EXCEPT !.pc = IF h.event.user \in DOMAIN conversations
                                       THEN "read" ELSE "run"],
                   "forward", <<>>, {})
    /\ UNCHANGED <<strategy, conversations, processed_messages, jobs, dispatched>>

\* _continue_conversation reads the row: self.conversations.get(user_id, {})
HandlerRead(t) ==
    /\ run.live[t].pc = "read"
    /\ \E h \in {run.live[t]} :
       \E state \in {IF h.event.user \in DOMAIN conversations
                     THEN conversations[h.event.user].state ELSE "vanished"} :
          IF accesses(state, h.event.text) = <<>>
          THEN Ended(t, "handled", <<>>, {})
          ELSE Moved(t, [h EXCEPT !.pc = "run", !.state = state,
                                  !.conv = conversations[h.event.user].thread_ts],
                     "read", <<>>, {})
    /\ UNCHANGED <<strategy, conversations, processed_messages, jobs, forwarded, dispatched>>

\* the next access of the handling; an exception ends it in the except clause
\* of _handle_message_event.  The Thread object is named by the message and
\* the handler thread that made it.
HandlerAccess(t) ==
    /\ run.live[t].pc = "run"
    /\ \E h \in {run.live[t]} :
       \E r \in {access(accesses(h.state, h.event.text)[h.done + 1], h, conversations)} :
          /\ conversations' = r.conversations
          /\ jobs' = thread_start(jobs, r.started, <<h.event.ts, t>>)
          /\ dispatched' = dispatched \cup {j.conv : j \in r.started}
          /\ IF r.raises # ""
             THEN Ended(t, r.raises, <<>>, {})
             ELSE IF h.done + 1 = Len(accesses(h.state, h.event.text))
             THEN Ended(t, "handled", r.posts, r.started)
             ELSE Moved(t, [h EXCEPT !.done = @ + 1, !.base = r.base], "access",
                        r.posts, r.started)
    /\ UNCHANGED <<strategy, processed_messages, forwarded>>

NextHandlers ==
    \/ \E e \in Deliverable : Deliver(e)
    \/ \E t \in Working : HandlerFilter(t)
    \/ \E t \in Working : HandlerAdd(t)
    \/ \E t \in Working : HandlerDispatch(t)
    \/ \E t \in Working : HandlerRead(t)
    \/ \E t \in Working : HandlerAccess(t)

SpecHandlers == InitHandlers /\ [][NextHandlers]_vars

----------------------------------------------------------------------------
(* The ingestion loop when calls of the Slack client raise                 *)

\* what a call of the Slack client raises when it fails: SlackApiError, or an
\* exception of another class (what the transport raises when the connection
\* fails)
Raisable == {"SlackApiError", "Exception"}

\* whether the ingestion goes on, and the exception raised last
Loop(alive, raised) == [op |-> "loop", alive |-> alive, raised |-> raised]

InitFaults ==
    /\ strategy \in {"poll", "push"}
    /\ conversations = <<>>
    /\ processed_messages = {}
    /\ jobs = {}
    /\ forwarded = [ts \in Ids |-> 0]
    /\ dispatched = {}
    /\ last = Step("init", NoMessage, <<>>, {})
    /\ run = Loop(TRUE, "")

\* the except clauses of check_direct_messages name SlackApiError, and start
\* catches KeyboardInterrupt alone: any other exception ends "while True"
poll_goes_on(kind) == kind = "SlackApiError"

\* _handle_message_event catches Exception, and the client calls the listener
\* again for the next request
push_goes_on(kind) == TRUE

\* conversations_list raises
PollListFails(kind) ==
    /\ strategy = "poll" /\ run.alive
    /\ run' = Loop(poll_goes_on(kind), kind)
    /\ last' = Step("list_failed", NoMessage, <<>>, {})
    /\ UNCHANGED <<strategy, conversations, processed_messages, jobs, forwarded, dispatched>>

\* conversations_history of one channel raises
PollHistoryFails(u, kind) ==
    /\ strategy = "poll" /\ run.alive
    /\ run' = Loop(poll_goes_on(kind), kind)
    /\ last' = Step("history_failed", [NoMessage EXCEPT !.channel = DM(u)], <<>>, {})
    /\ UNCHANGED <<strategy, conversations, processed_messages, jobs, forwarded, dispatched>>

\* the engine is called for m and its chat_postMessage raises: the handling
\* has made the accesses before the call and makes none after it
ForwardFails(m, kind) ==
    \E r \in {handle(m, conversations, kind)} :
        /\ processed_messages' = mark_processed(processed_messages, m.ts)
        /\ conversations' = r.conversations
        /\ jobs' = thread_start(jobs, r.started, m.ts)
        /\ forwarded' = [forwarded EXCEPT ![m.ts] = @ + 1]
        /\ dispatched' = dispatched \cup {j.conv : j \in r.started}
        /\ last' = Step("send_failed", m, r.posts, r.started)

\* check_direct_messages, one iteration: a new message of a user, and the
\* reply to it is not sent
PollForwardFails(m, kind) ==
    /\ strategy = "poll" /\ run.alive
    /\ m.ts \notin processed_messages
    /\ m.user # BotId
    /\ ForwardFails(m, kind)
    /\ run' = Loop(poll_goes_on(kind), kind)
    /\ UNCHANGED strategy

\* _handle_message_event hands the event to the engine, and the reply to it
\* is not sent
PushForwardFails(e, kind) ==
    /\ strategy = "push"
    /\ ~(e.bot_id \/ e.user = BotId)
    /\ e.channel_type = "im"
    /\ e.ts \notin processed_messages
    /\ ForwardFails(e, kind)
    /\ run' = Loop(push_goes_on(kind), kind)
    /\ UNCHANGED strategy

NextFaults ==
    \/ \E m \in WindowMessages(Texts, MaxFaultMsgs) : run.alive /\ PollSeen(m)
    \/ \E m \in WindowMessages(Texts, MaxFaultMsgs) : run.alive /\ PollOwn(m)
    \/ \E m \in WindowMessages(Texts, MaxFaultMsgs) : run.alive /\ PollForward(m)
    \/ \E kind \in Raisable : PollListFails(kind)
    \/ \E u \in Users : \E kind \in Raisable : PollHistoryFails(u, kind)
    \/ \E m \in WindowMessages(Texts, MaxFaultMsgs) : \E kind \in Raisable :
          PollForwardFails(m, kind)
    \/ \E e \in Events(Texts, MaxFaultMsgs) : PushIgnored(e)
    \/ \E e \in Events(Texts, MaxFaultMsgs) : PushForward(e)
    \/ \E e \in Events(Texts, MaxFaultMsgs) : \E kind \in Raisable : PushForwardFails(e, kind)
    \/ \E j \in jobs : \E outcome \in job_outcomes(j.target) : JobFinish(j, outcome)

SpecFaults == InitFaults /\ [][NextFaults]_vars

----------------------------------------------------------------------------
(* One polling cycle on one channel: the window that conversations_history *)
(* returns is worked through message by message                            *)

\* limit=5 of conversations_history
HistoryLimit == 5

\* a cycle: the window fetched, the ids seen when it was fetched, the number
\* of its messages worked through, and the ids handed to the engine, in turn
Cycle(window, seen, pos, order) ==
    [op |-> "cycle", window |-> window, seen |-> seen, pos |-> pos, order |-> order]

\* what the channel of U1 holds: the messages that the user sent, a
\* confirmation and a reference in turn, and the bot's own
Listable ==
    {Message(ts, "U1", IF ts % 2 = 1 THEN TextYes ELSE TextWrappedA, DM("U1"), "im", FALSE) :
        ts \in 1..MaxWindowMsgs}
    \cup {m \in OwnMessages : m.channel = DM("U1")}

\* the windows that a fetch can return: some of these messages, each once, in
\* any order
Windows ==
    UNION {{w \in [1..n -> Listable] : \A i, k \in 1..n : w[i].ts = w[k].ts => i = k} :
           n \in {n \in 0..MaxWindow : n <= HistoryLimit}}

\* variant: the messages are worked through oldest first
iteration_order_by_ts(window) ==
    [i \in 1..Len(window) |->
        CHOOSE m \in {window[k] : k \in 1..Len(window)} :
            Cardinality({k \in 1..Len(window) : window[k].ts < m.ts}) = i - 1]

\* for message in history_response["messages"]
iteration_order(window) == window

InitWindow ==
    /\ strategy = "poll"
    /\ conversations = <<>>
    /\ processed_messages = {}
    /\ jobs = {}
    /\ forwarded = [ts \in Ids |-> 0]
    /\ dispatched = {}
    /\ last = Step("init", NoMessage, <<>>, {})
    /\ run = Cycle(<<>>, {}, 0, <<>>)

\* the message that the loop is at
AtMessage == iteration_order(run.window)[run.pos + 1]

\* conversations_history returns, once the window before is worked through
WindowFetch(w) ==
    /\ run.pos = Len(run.window)
    /\ run' = Cycle(w, processed_messages, 0, <<>>)
    /\ last' = Step("fetch", NoMessage, <<>>, {})
    /\ UNCHANGED <<strategy, conversations, processed_messages, jobs, forwarded, dispatched>>

\* one iteration of "for message in ...": already seen
WindowSeen ==
    /\ run.pos < Len(run.window)
    /\ AtMessage.ts \in processed_messages
    /\ run' = [run EXCEPT !.pos = @ + 1]
    /\ last' = Step("seen", OnlyTs(AtMessage), <<>>, {})
    /\ UNCHANGED <<strategy, conversations, processed_messages, jobs, forwarded, dispatched>>

\* one iteration: the bot's own message
WindowOwn ==
    /\ run.pos < Len(run.window)
    /\ AtMessage.ts \notin processed_messages
    /\ processed_messages' = mark_processed(processed_messages, AtMessage.ts)
    /\ AtMessage.user = BotId
    /\ run' = [run EXCEPT !.pos = @ + 1]
    /\ last' = Step("own", NoMessage, <<>>, {})
    /\ UNCHANGED <<strategy, conversations, jobs, forwarded, dispatched>>

\* one iteration: a new message of the user
WindowForward ==
    /\ run.pos < Len(run.window)
    /\ AtMessage.ts \notin processed_messages
    /\ processed_messages' = mark_processed(processed_messages, AtMessage.ts)
    /\ AtMessage.user # BotId
    /\ \E m \in {AtMessage} : \E eff \in {engine(m, conversations)} :
          /\ conversations' = eff.conversations
          /\ jobs' = thread_start(jobs, eff.started, m.ts)
          /\ forwarded' = [forwarded EXCEPT ![m.ts] = @ + 1]
          /\ dispatched' = dispatched \cup {j.conv : j \in eff.started}
          /\ last' = Step("forward", m, eff.posts, eff.started)
          /\ run' = [run EXCEPT !.pos = @ + 1, !.order = Append(@, m.ts)]
    /\ UNCHANGED strategy

NextWindow ==
    \/ \E w \in Windows : WindowFetch(w)
    \/ WindowSeen
    \/ WindowOwn
    \/ WindowForward

SpecWindow == InitWindow /\ [][NextWindow]_vars

----------------------------------------------------------------------------
(* The similarity pipeline on its own: one call of an entry point or of a  *)
(* parser per run, on what the backend answered                            *)

\* the bot as constructed, before any message
Idle ==
    /\ strategy \in {"poll", "push"}
    /\ conversations = <<>>
    /\ processed_messages = {}
    /\ jobs = {}
    /\ forwarded = [ts \in Ids |-> 0]
    /\ dispatched = {}
    /\ last = Step("init", NoMessage, <<>>, {})

ResponseTokens == {TokOpen, TokClose, TokScore82, TokProse, TokNumber, TokScoreLine,
                   TokScoreLineLower, TokExplanationLine}
Responses == UNION {[1..n -> ResponseTokens] : n \in 0..MaxResponseLen}
Answers == {BackendError} \cup {Answer(text) : text \in Responses}

InitParse ==
    /\ Idle
    /\ run \in {[op |-> "answer", answer |-> answer] : answer \in Answers}

Called(op, outcome) == [op |-> op, answer |-> run.answer, outcome |-> outcome]

\* _calculate_similarity parses the answer
CallPrimaryParser ==
    /\ run.op = "answer"
    /\ run' = Called("_calculate_similarity",
                     Outcome(FALSE, "", _calculate_similarity(run.answer), <<>>))
    /\ UNCHANGED <<strategy, conversations, processed_messages, jobs, forwarded, dispatched,
                   last>>

\* _parse_similarity_response parses the answer
CallLineParser ==
    /\ run.op = "answer"
    /\ ~run.answer.raises
    /\ run' = Called("_parse_similarity_response",
                     Outcome(FALSE, "", _parse_similarity_response(run.answer.text), <<>>))
    /\ UNCHANGED <<strategy, conversations, processed_messages, jobs, forwarded, dispatched,
                   last>>

\* compare_profiles is called with two profiles that were found
CallCompareProfiles ==
    /\ run.op = "answer"
    /\ run' = Called("compare_profiles",
                     compare_profiles(Profile(UrlBase), Profile(UrlOther), Always(run.answer)))
    /\ UNCHANGED <<strategy, conversations, processed_messages, jobs, forwarded, dispatched,
                   last>>

\* calculate_similarity is called with two profiles that were found
CallCalculateSimilarity(api_key) ==
    /\ run.op = "answer"
    /\ run' = Called("calculate_similarity",
                     Outcome(FALSE, "",
                             calculate_similarity(api_key, Profile(UrlBase),
                                                  Profile(UrlOther), run.answer),
                             IF api_key THEN <<UrlOther>> ELSE <<>>))
    /\ UNCHANGED <<strategy, conversations, processed_messages, jobs, forwarded, dispatched,
                   last>>

\* find_similar_profiles is called with a base profile and one other profile
CallRankOne ==
    /\ run.op = "answer"
    /\ run' = Called("rank_one",
                     find_similar_profiles(Profile(UrlBase), <<Profile(UrlOther)>>, 5,
                                           Always(run.answer)))
    /\ UNCHANGED <<strategy, conversations, processed_messages, jobs, forwarded, dispatched,
                   last>>

NextParse ==
    \/ CallPrimaryParser
    \/ CallLineParser
    \/ CallCompareProfiles
    \/ CallRankOne
    \/ \E api_key \in BOOLEAN : CallCalculateSimilarity(api_key)

SpecParse == InitParse /\ [][NextParse]_vars

\* find_similar_profiles on its own
CandidateProfiles == {Profile(UrlBase), Profile(UrlOther), Profile(UrlThird), FailedProfile}
CandidateLists == UNION {[1..n -> CandidateProfiles] : n \in 0..MaxCandidates}
RankAnswers == {Answer(<<TokOpen, TokScore82, TokClose>>),
                Answer(<<TokProse, TokOpen, TokScore77, TokClose>>),
                Answer(<<TokOpen, TokNote, TokClose>>),
                Answer(<<TokOpen, TokClose>>),
                Answer(<<TokNumber>>),
                BackendError}
Backends == {[url \in {"", UrlBase, UrlOther, UrlThird} |->
                 IF url = UrlOther THEN other ELSE IF url = UrlThird THEN third
                 ELSE Answer(<<TokOpen, TokScore82, TokClose>>)] :
             other \in RankAnswers, third \in RankAnswers}

InitRank ==
    /\ Idle
    /\ run \in {[op |-> "profiles", base_profile |-> base, comparison_profiles |-> candidates,
                 limit |-> limit, backend |-> backend] :
                base \in {Profile(UrlBase), NoProfile}, candidates \in CandidateLists,
                limit \in 1..MaxLimit, backend \in Backends}

\* find_similar_profiles is called
CallFindSimilarProfiles ==
    /\ run.op = "profiles"
    /\ run' = [op |-> "find_similar_profiles", base_profile |-> run.base_profile,
               comparison_profiles |-> run.comparison_profiles, limit |-> run.limit,
               backend |-> run.backend,
               outcome |-> find_similar_profiles(run.base_profile, run.comparison_profiles,
                                                 run.limit, run.backend)]
    /\ UNCHANGED <<strategy, conversations, processed_messages, jobs, forwarded, dispatched,
                   last>>

NextRank == CallFindSimilarProfiles

SpecRank == InitRank /\ [][NextRank]_vars

----------------------------------------------------------------------------
(* The targets of the job threads on their own: one run of a target per    *)
(* behaviour, on the thread's arguments and the answers of the outside     *)
(* world.  A target reads and writes nothing of the bot but its Slack      *)
(* client.                                                                 *)

\* the target of a thread runs to its end in the world run.env
RunThread ==
    /\ run.op = "thread"
    /\ \E body \in {run_target(run.job, run.env)} :
          run' = [op |-> "job", job |-> run.job, env |-> run.env, body |-> body,
                  sent |-> [i \in 1..Len(delivered(body.attempts, run.env.failing_posts)) |->
                              Post(run.job.channel_id,
                                   delivered(body.attempts, run.env.failing_posts)[i])],
                  propagated |-> propagates(body.attempts, run.env.failing_posts)]
    /\ UNCHANGED <<strategy, conversations, processed_messages, jobs, forwarded, dispatched,
                   last>>

\* the world of one job
Env(base, comparison, directory, lookup, backend, failing_posts) ==
    [base |-> base, comparison |-> comparison, directory |-> directory, lookup |-> lookup,
     backend |-> backend, failing_posts |-> failing_posts]

\* what the provider can answer
ProviderMisses == {ProviderAnswer(NoProfile), ProviderAnswer(FailedProfile), ProviderError}

\* a workspace of n members of which member k is of the given kind
KindUser(id, kind) ==
    RawUser(id, kind = "deleted", kind = "bot", IF kind = "unnamed" THEN "" ELSE "name")
Directory(n, k, kind) ==
    DirectoryAnswer([id \in 1..n |-> KindUser(id, IF id = k THEN kind ELSE "user")])
Directories(max) ==
    {Directory(n, k, kind) : n \in 0..max, k \in 0..max, kind \in {"bot", "deleted", "unnamed"}}

\* what the lookups by name answer: one answer for member 1, one for the others
LookupAnswers(url) ==
    {ProviderAnswer(Profile(url)), ProviderAnswer(Profile(UrlBase)),
     ProviderAnswer(NoProfile), ProviderError}
Lookups(firsts, others) ==
    {[id \in 1..(MaxMembers + 1) |-> IF id = 1 THEN first ELSE other] :
        first \in firsts, other \in others}
NoLookup == [id \in 1..(MaxMembers + 1) |-> ProviderError]

\* what the backend answers in the runs of jobs: an object with a score, an
\* object in prose, prose, broken JSON, a number, an empty object, an object without a
\* score, or an exception
JobAnswers == {Answer(<<TokOpen, TokScore82, TokClose>>),
               Answer(<<TokProse, TokOpen, TokScore77, TokClose>>),
               Answer(<<TokProse>>),
               Answer(<<TokOpen, TokScore82>>),
               Answer(<<TokNumber>>),
               Answer(<<TokOpen, TokClose>>),
               Answer(<<TokOpen, TokNote, TokClose>>),
               Answer(<<TokOpen, TokScore150, TokClose>>),
               Answer(<<TokProse, TokOpen, TokScoreNeg, TokClose>>),
               BackendError}
NoBackend == Always(BackendError)

\* the worlds of a search job: those parts that the job does not get to are
\* left at their defaults
SearchEnvs(directories, firsts, others, answers, fails) ==
    {Env(base, ProviderError, DirectoryError, NoLookup, NoBackend, f) :
        base \in ProviderMisses, f \in fails}
    \cup {Env(ProviderAnswer(Profile(UrlBase)), ProviderError, DirectoryError, NoLookup,
              NoBackend, f) : f \in fails}
    \cup {Env(ProviderAnswer(Profile(UrlBase)), ProviderError, directory, lookup,
              Always(answer), f) :
            directory \in directories, lookup \in Lookups(firsts, others),
            answer \in answers, f \in fails}

\* the worlds of a compare job
CompareEnvs(answers, fails) ==
    {Env(base, ProviderError, DirectoryError, NoLookup, NoBackend, f) :
        base \in ProviderMisses, f \in fails}
    \cup {Env(ProviderAnswer(Profile(UrlBase)), comparison, DirectoryError, NoLookup,
              NoBackend, f) : comparison \in ProviderMisses, f \in fails}
    \cup {Env(ProviderAnswer(Profile(UrlBase)), ProviderAnswer(Profile(url)), DirectoryError,
              NoLookup, Always(answer), f) :
            url \in {UrlBase, UrlOther}, answer \in answers, f \in fails}

\* the threads that the engine starts: the references are those that the
\* conversations store
Threads ==
    {Thread("_find_similar_profiles", DM(u), u, clean_slack_url(Strip(TextWrappedA)), None, 1) :
        u \in Users}
    \cup {Thread("_compare_specific_profiles", DM(u), u, clean_slack_url(Strip(TextWrappedA)),
                 clean_slack_url(Strip(text)), 1) :
            u \in Users, text \in {TextWrappedA, TextRawB}}

\* the worlds of job j when every chat_postMessage of the job returns normally:
\* small workspaces with every answer of the provider and of the backend, and
\* workspaces of up to MaxMembers members whose lookups find a profile or miss
JobEnvs(j) ==
    IF j.target = "_find_similar_profiles"
    THEN SearchEnvs(Directories(MaxJobMembers), LookupAnswers(UrlOther),
                    LookupAnswers(UrlThird), JobAnswers, {0})
         \cup SearchEnvs(Directories(MaxMembers), {ProviderAnswer(Profile(UrlOther))},
                         {ProviderAnswer(Profile(UrlThird)), ProviderAnswer(NoProfile)},
                         {Answer(<<TokOpen, TokScore82, TokClose>>)}, {0})
    ELSE CompareEnvs(JobAnswers, {0})

InitJob ==
    /\ Idle
    /\ run \in UNION {{[op |-> "thread", job |-> j, env |-> env] : env \in JobEnvs(j)} :
                      j \in Threads}

NextJob == RunThread

SpecJob == InitJob /\ [][NextJob]_vars

\* the worlds of job j in which the first calls of chat_postMessage raise
JobSendEnvs(j) ==
    IF j.target = "_find_similar_profiles"
    THEN SearchEnvs(Directories(1), {ProviderAnswer(Profile(UrlOther)), ProviderError},
                    {ProviderError}, {Answer(<<TokOpen, TokScore82, TokClose>>),
                                      Answer(<<TokNumber>>)},
                    0..MaxFailingPosts)
    ELSE CompareEnvs({Answer(<<TokOpen, TokScore82, TokClose>>), Answer(<<TokNumber>>),
                      Answer(<<TokOpen, TokClose>>)}, 0..MaxFailingPosts)

InitJobSend ==
    /\ Idle
    /\ run \in UNION {{[op |-> "thread", job |-> j, env |-> env] : env \in JobSendEnvs(j)} :
                      j \in Threads}

NextJobSend == RunThread

SpecJobSend == InitJobSend /\ [][NextJobSend]_vars

----------------------------------------------------------------------------
(* The instrumentation on its own: one analysis per run, on statistics     *)
(* that a caller hands in                                                  *)

\* statistics of operation api with numbers of calls and averages around the
\* two thresholds
ThresholdEntries(api) ==
    {StatsEntry(api, n, Fraction(avg, 1), n * avg, "", <<>>) :
        n \in {0, 9, 10, 11}, avg \in {9, 10, 11}}
ThresholdStats ==
    {<<x, y>> : x \in ThresholdEntries("X"), y \in ThresholdEntries("Y")}
    \cup {<<x, NestedEntry("anthropic")>> : x \in ThresholdEntries("X")}

\* n samples of 0.1 s of which the one at place k took 5.0 s, and of which
\* the one at place k + 1 took 5.0 s as well when two is set
Spiked(n, k, two) ==
    [i \in 1..n |-> Sample(IF i = k \/ (two /\ i = k + 1) THEN 50 ELSE 1)]
\* the statistics of operation "X" after up to MaxSamples calls: with all its samples
\* under "calls", and as get_api_call_stats gives them
SampleLists ==
    {Spiked(n, k, two) : n \in (MaxSamples - 1)..MaxSamples, k \in 0..MaxSamples,
                         two \in BOOLEAN}
DistributionStats ==
    {<<StatsEntry("X", Len(calls), Fraction(SumDurations(calls), Len(calls)),
                  SumDurations(calls), "calls", calls)>> : calls \in SampleLists}
    \cup {get_api_call_stats("X", calls) : calls \in SampleLists}

InitTracker ==
    /\ Idle
    /\ run \in {[op |-> "api_stats", api_stats |-> api_stats, api_name |-> api_name] :
                    api_stats \in ThresholdStats \cup DistributionStats,
                    api_name \in {"", "X", "Y"}}

\* analyze_api_performance is called
CallAnalyze ==
    /\ run.op = "api_stats"
    /\ run.api_name = ""
    /\ run' = [op |-> "analyze_api_performance", api_stats |-> run.api_stats,
               api_name |-> run.api_name,
               analysis |-> analyze_api_performance(run.api_stats)]
    /\ UNCHANGED <<strategy, conversations, processed_messages, jobs, forwarded, dispatched,
                   last>>

\* analyze_response_time_distribution is called
CallDistribution ==
    /\ run.op = "api_stats"
    /\ run' = [op |-> "analyze_response_time_distribution", api_stats |-> run.api_stats,
               api_name |-> run.api_name,
               analysis |-> analyze_response_time_distribution(run.api_stats, run.api_name)]
    /\ UNCHANGED <<strategy, conversations, processed_messages, jobs, forwarded, dispatched,
                   last>>

NextTracker ==
    \/ CallAnalyze
    \/ CallDistribution

SpecTracker == InitTracker /\ [][NextTracker]_vars

----------------------------------------------------------------------------
(* The sample lists of the bot (self.api_call_stats) on their own: the     *)
(* threads of the bot append to them, and the report thread reads them.    *)
(* list.append is atomic, so that the appends of threads that run at the   *)
(* same time come one after the other.                                     *)

ApiTypes == {"slack_auth_test", "slack_conversations_list", "slack_conversations_history",
            "slack_chat_postMessage"}

\* variant: a list keeps its last 10 samples
append_sample_last_10(api_call_stats, api_type, duration) ==
    [api_call_stats EXCEPT ![api_type] =
        IF Len(@) >= 10 THEN Tail(@) \o <<Sample(duration)>> ELSE Append(@, Sample(duration))]

\* self.api_call_stats[api_type].append({...})
append_sample(api_call_stats, api_type, duration) ==
    [api_call_stats EXCEPT ![api_type] = Append(@, Sample(duration))]

\* the bot after __init__, which calls auth_test once
InitSamples ==
    /\ Idle
    /\ run \in {[op |-> "__init__",
                  api_call_stats |-> [api_type \in ApiTypes |->
                                        IF api_type = "slack_auth_test"
                                        THEN <<Sample(duration)>> ELSE <<>>],
                  stats |-> <<>>] : duration \in {1, 50}}

\* a thread made a call to Slack that took duration, and recorded it
Recorded(op, api_type, duration) ==
    run' = [op |-> op,
            api_call_stats |-> append_sample(run.api_call_stats, api_type, duration),
            stats |-> <<>>]

\* check_direct_messages lists the channels
RecordConversationsList ==
    /\ Len(run.api_call_stats["slack_conversations_list"]) < MaxPolls
    /\ Recorded("check_direct_messages", "slack_conversations_list", 1)
    /\ UNCHANGED <<strategy, conversations, processed_messages, jobs, forwarded, dispatched,
                   last>>

\* check_direct_messages fetches the history of a channel
RecordConversationsHistory ==
    /\ Len(run.api_call_stats["slack_conversations_history"])
          < Len(run.api_call_stats["slack_conversations_list"])
    /\ Recorded("conversations_history", "slack_conversations_history", 1)
    /\ UNCHANGED <<strategy, conversations, processed_messages, jobs, forwarded, dispatched,
                   last>>

\* the engine replies to a message
RecordEnginePost(duration) ==
    /\ Len(run.api_call_stats["slack_chat_postMessage"]) < MaxRecorded
    /\ Recorded("_continue_conversation", "slack_chat_postMessage", duration)
    /\ UNCHANGED <<strategy, conversations, processed_messages, jobs, forwarded, dispatched,
                   last>>

\* a job thread sends its message
RecordJobPost(duration) ==
    /\ Len(run.api_call_stats["slack_chat_postMessage"]) < MaxRecorded
    /\ Recorded("job", "slack_chat_postMessage", duration)
    /\ UNCHANGED <<strategy, conversations, processed_messages, jobs, forwarded, dispatched,
                   last>>

\* _generate_performance_report on the report thread: get_api_call_stats, and
\* generate_report and analyze_api_performance on its result
GeneratePerformanceReport ==
    /\ run' = [op |-> "_generate_performance_report",
               api_call_stats |-> run.api_call_stats,
               stats |-> get_api_call_stats("slack_auth_test",
                                            run.api_call_stats["slack_auth_test"])
                         \o get_api_call_stats("slack_conversations_list",
                                               run.api_call_stats["slack_conversations_list"])
                         \o get_api_call_stats("slack_conversations_history",
                                               run.api_call_stats["slack_conversations_history"])
                         \o get_api_call_stats("slack_chat_postMessage",
                                               run.api_call_stats["slack_chat_postMessage"])]
    /\ UNCHANGED <<strategy, conversations, processed_messages, jobs, forwarded, dispatched,
                   last>>

NextSamples ==
    \/ RecordConversationsList
    \/ RecordConversationsHistory
    \/ \E duration \in {1, 50} : RecordEnginePost(duration)
    \/ \E duration \in {1, 50} : RecordJobPost(duration)
    \/ GeneratePerformanceReport

SpecSamples == InitSamples /\ [][NextSamples]_vars

----------------------------------------------------------------------------
(* Properties                                                              *)

\* the step handed a message to the engine; last' describes the handling
Handled == forwarded' # forwarded
\* the user whose message the latest step handled, and the text sent
Sender == last'.msg.user
SentText == last'.msg.text
\* the state of u's conversation
StateOf(convs, u) == IF u \in DOMAIN convs THEN convs[u].state ELSE "none"

C2_DispatchedNotInTable ==
    \A u \in DOMAIN conversations : conversations[u].thread_ts \notin dispatched

\* a comparison reference has just handed the conversation off to a job
C2_Witness ==
    /\ last.op = "forward"
    /\ \E j \in last.started : j.target = "_compare_specific_profiles" /\ j.conv \in dispatched
    /\ last.msg.user \notin DOMAIN conversations

\* C3 as claimed: no user has two jobs running at once.
C3_OneRunningJobPerUser ==
    \A j1, j2 \in jobs : j1.user_id = j2.user_id => j1 = j2

\* C3 as amended: two jobs of one user that run at once were started by two
\* different conversations of that user.
C3_OneRunningJobPerConversation ==
    \A j1, j2 \in jobs : (j1.user_id = j2.user_id /\ j1 # j2) => j1.conv # j2.conv

\* two jobs of one user run at once
C3_Witness ==
    \E j1, j2 \in jobs : j1.user_id = j2.user_id /\ j1.tid # j2.tid

\* C4: a message of a user without a live conversation creates a conversation
\* in awaiting_confirmation and is answered by the greeting, whatever its
\* text; no reference is carried over and no job is started.
C4_NewConversation ==
    [][(Handled /\ Sender \notin DOMAIN conversations) =>
        /\ Sender \in DOMAIN conversations'
        /\ conversations'[Sender].state = "awaiting_confirmation"
        /\ "base_linkedin_url" \notin DOMAIN conversations'[Sender]
        /\ conversations'[Sender].channel_id = last'.msg.channel
        /\ last'.posts = <<Post(last'.msg.channel, "greeting")>>
        /\ last'.started = {}
        /\ jobs' = jobs]_vars

\* a user is greeted anew while the job of the previous conversation runs
C4_Witness ==
    /\ last.op = "forward"
    /\ last.posts = <<Post(last.msg.channel, "greeting")>>
    /\ \E j \in jobs : j.user_id = last.msg.user
    /\ StateOf(conversations, last.msg.user) = "awaiting_confirmation"

\* the claims' reading of the texts, stated without the engine's operators
ClaimTokens == { <<"y">>, <<"y", "e", "s">>, <<"s", "u", "r", "e">>, <<"o", "k">>,
                 <<"o", "k", "a", "y">> }
ContainsIgnoringCase(text, token) ==
    \E i \in 0..(Len(text) - Len(token)) :
        \A k \in 1..Len(token) : LowerChar(text[i + k]) = token[k]
\* r is t without its enclosing angle brackets, cut before the first pipe
IsUnwrappingOf(r, t) ==
    IF StartsWith(t, "<") /\ EndsWith(t, ">")
    THEN LET inner == SubSeq(t, 2, Len(t) - 1)
         IN  /\ Len(r) <= Len(inner)
             /\ r = SubSeq(inner, 1, Len(r))
             /\ \A i \in 1..Len(r) : r[i] # "|"
             /\ (Len(r) = Len(inner) \/ inner[Len(r) + 1] = "|")
    ELSE r = t
UnwrappedInput(text) ==
    LET t == Strip(text)
    IN  CHOOSE r \in {SubSeq(t, a, b) : a \in 1..2, b \in 0..Len(t)} : IsUnwrappingOf(r, t)
UrlA == <<"l", "i", "n", "k", "e", "d", "i", "n", ".", "c", "o", "m", "/", "i", "n",
          "/", "a">>
UrlB == <<"l", "i", "n", "k", "e", "d", "i", "n", ".", "c", "o", "m", "/", "i", "n",
          "/", "b">>

\* C5: in awaiting_confirmation a text that contains one of y, yes, sure, ok,
\* okay, in any case, moves the conversation to awaiting_linkedin_url; any
\* other text removes the conversation from the table.
C5_Confirmation ==
    [][(Handled /\ StateOf(conversations, Sender) = "awaiting_confirmation") =>
        IF \E token \in ClaimTokens : ContainsIgnoringCase(SentText, token)
        THEN StateOf(conversations', Sender) = "awaiting_linkedin_url"
        ELSE Sender \notin DOMAIN conversations']_vars

\* "nay" contains the token y and was taken as a confirmation
C5_Witness ==
    /\ last.op = "forward"
    /\ last.msg.text = TextNay
    /\ last.posts = <<Post(last.msg.channel, "ask_linkedin_url")>>
    /\ StateOf(conversations, last.msg.user) = "awaiting_linkedin_url"

\* C6: in awaiting_linkedin_url the input is unwrapped; if the unwrapped text
\* holds the profile-URL pattern it is stored as the base reference (for
\* <U|label> that is U) and the state becomes awaiting_comparison_choice;
\* otherwise the state stays and a corrected value is asked for.
C6_BaseReference ==
    [][(Handled /\ StateOf(conversations, Sender) = "awaiting_linkedin_url") =>
        LET url == UnwrappedInput(SentText)
        IN  IF Contains(url, LINKEDIN_PATTERN)
            THEN /\ StateOf(conversations', Sender) = "awaiting_comparison_choice"
                 /\ conversations'[Sender].base_linkedin_url = url
                 /\ SentText = TextWrappedA => conversations'[Sender].base_linkedin_url = UrlA
            ELSE /\ StateOf(conversations', Sender) = "awaiting_linkedin_url"
                 /\ last'.posts = <<Post(last'.msg.channel, "invalid_url")>>]_vars

\* <linkedin.com/in/a|a> was stored as linkedin.com/in/a
C6_Witness ==
    /\ last.op = "forward"
    /\ last.msg.text = TextWrappedA
    /\ StateOf(conversations, last.msg.user) = "awaiting_comparison_choice"
    /\ conversations[last.msg.user].base_linkedin_url = UrlA

\* C7: in awaiting_comparison_choice "1" moves to awaiting_comparison_url, "2"
\* starts a search job with the stored base reference and removes the
\* conversation, any other input keeps the state and the base reference and is
\* answered by the prompt.
C7_ModeChoice ==
    [][(Handled /\ StateOf(conversations, Sender) = "awaiting_comparison_choice") =>
        LET choice == Strip(SentText)
            row == conversations[Sender]
        IN  CASE choice = <<"1">> ->
                    /\ StateOf(conversations', Sender) = "awaiting_comparison_url"
                    /\ conversations'[Sender].base_linkedin_url = row.base_linkedin_url
                    /\ last'.started = {}
              [] choice = <<"2">> ->
                    /\ Sender \notin DOMAIN conversations'
                    /\ Cardinality(last'.started) = 1
                    /\ \A j \in last'.started :
                          /\ j.target = "_find_similar_profiles"
                          /\ j.user_id = Sender
                          /\ j.base_url = row.base_linkedin_url
              [] OTHER ->
                    /\ StateOf(conversations', Sender) = "awaiting_comparison_choice"
                    /\ conversations'[Sender].base_linkedin_url = row.base_linkedin_url
                    /\ last'.posts = <<Post(last'.msg.channel, "invalid_choice")>>
                    /\ last'.started = {}
                    /\ jobs' = jobs]_vars

\* an input that is neither 1 nor 2 was answered by the prompt
C7_Witness ==
    /\ last.op = "forward"
    /\ last.posts = <<Post(last.msg.channel, "invalid_choice")>>
    /\ StateOf(conversations, last.msg.user) = "awaiting_comparison_choice"
    /\ conversations[last.msg.user].base_linkedin_url = UrlB

\* C8: in awaiting_comparison_url a valid reference starts a compare job with
\* (stored base reference, unwrapped comparison reference) and removes the
\* conversation; an invalid one keeps the state and starts no job.
C8_ComparisonReference ==
    [][(Handled /\ StateOf(conversations, Sender) = "awaiting_comparison_url") =>
        LET url == UnwrappedInput(SentText)
            row == conversations[Sender]
        IN  IF Contains(url, LINKEDIN_PATTERN)
            THEN /\ Sender \notin DOMAIN conversations'
                 /\ Cardinality(last'.started) = 1
                 /\ \A j \in last'.started :
                       /\ j.target = "_compare_specific_profiles"
                       /\ j.user_id = Sender
                       /\ j.base_url = row.base_linkedin_url
                       /\ j.comparison_url = url
            ELSE /\ StateOf(conversations', Sender) = "awaiting_comparison_url"
                 /\ last'.started = {}
                 /\ jobs' = jobs]_vars

\* a compare job was started with base a and comparison b
C8_Witness ==
    /\ last.op = "forward"
    /\ \E j \in last.started : j.base_url = UrlA /\ j.comparison_url = UrlB
    /\ \E j \in jobs : j.tid = last.msg.ts /\ j.base_url = UrlA /\ j.comparison_url = UrlB

\* C9: every handling of a message by the engine sends exactly one message.
C9_OneReplyPerHandling == last.op = "forward" => Len(last.posts) = 1

\* a decline was handled and answered
C9_Witness ==
    /\ last.op = "forward"
    /\ last.posts = <<Post(last.msg.channel, "no_problem")>>
    /\ last.msg.user \notin DOMAIN conversations

\* C10: when a handling starts a job, the handling ends with the conversation
\* removed and the job still running.
C10_SubmitDoesNotBlock ==
    [][(Handled /\ last'.started # {}) =>
        /\ \A j \in last'.started :
              \E r \in jobs' \ jobs :
                  r.tid = last'.msg.ts /\ r.target = j.target /\ r.user_id = j.user_id
        /\ Sender \notin DOMAIN conversations']_vars

\* a message of another user is handled while a job is still running
C10_Witness ==
    /\ last.op = "forward"
    /\ \E j \in jobs : j.tid < last.msg.ts /\ j.user_id # last.msg.user

\* the latest step was a call of find_similar_profiles that returned
Ranked == run.op = "find_similar_profiles" /\ ~run.outcome.raises
\* the profile URL of an entry of the ranking, and its score
EntryUrl(entry) == entry.items.compare_user.linkedin_url
HasScore(entry) == "similarity_score" \in DOMAIN entry.items
\* candidate c was discovered before candidate d
DiscoveredBefore(c, d) ==
    \E p, q \in 1..Len(run.comparison_profiles) :
        /\ p < q
        /\ run.comparison_profiles[p].linkedInUrl = c
        /\ run.comparison_profiles[q].linkedInUrl = d

\* C15: no entry of the output of find_similar_profiles is the base profile,
\* and the backend is not called for a candidate that is the base profile.
C15_BaseExcluded ==
    run.op = "find_similar_profiles" =>
        /\ \A i \in 1..Len(run.outcome.value) :
              EntryUrl(run.outcome.value[i]) # run.base_profile.linkedInUrl
        /\ \A i \in 1..Len(run.outcome.calls) :
              run.outcome.calls[i] # run.base_profile.linkedInUrl

\* the base profile was among the candidates, and another candidate was ranked
C15_Witness ==
    /\ Ranked
    /\ \E p \in 1..Len(run.comparison_profiles) :
          run.comparison_profiles[p] = run.base_profile
    /\ run.comparison_profiles[1] = run.base_profile
    /\ Len(run.outcome.value) >= 1
    /\ Len(run.outcome.calls) >= 1

\* C16: the output of find_similar_profiles has at most limit entries, scores
\* do not rise along it, and entries of equal score are in the order in which
\* their candidates were discovered.
C16_RankedOutput ==
    Ranked =>
        LET out == run.outcome.value
        IN  /\ Len(out) <= run.limit
            /\ \A i, j \in 1..Len(out) :
                  (i < j /\ HasScore(out[i]) /\ HasScore(out[j])) =>
                      /\ out[i].items.similarity_score >= out[j].items.similarity_score
                      /\ (out[i].items.similarity_score = out[j].items.similarity_score
                          /\ EntryUrl(out[i]) # EntryUrl(out[j]))
                            => DiscoveredBefore(EntryUrl(out[i]), EntryUrl(out[j]))

\* two candidates that both score 77 are ranked in their order of discovery, and
\* a third result was cut off by the limit
C16_Witness ==
    /\ Ranked
    /\ Len(run.comparison_profiles) = 3
    /\ Len(run.outcome.calls) = 3
    /\ Len(run.outcome.value) = 2
    /\ HasScore(run.outcome.value[1]) /\ HasScore(run.outcome.value[2])
    /\ run.outcome.value[1].items.similarity_score = 77
    /\ run.outcome.value[2].items.similarity_score = 77
    /\ EntryUrl(run.outcome.value[1]) = UrlThird
    /\ EntryUrl(run.outcome.value[2]) = UrlOther

\* the claims' reading of a response: t is the text of one structured object
IsObjectText(t) ==
    /\ Len(t) >= 2
    /\ t[1] = "{"
    /\ t[Len(t)] = "}"
    /\ \A i \in 2..(Len(t) - 1) : t[i] \in {"s82", "s77", "note"}
\* the places of the structured objects that a response contains
ObjectsIn(text) ==
    {ij \in (1..Len(text)) \X (1..Len(text)) :
        ij[1] < ij[2] /\ IsObjectText(SubSeq(text, ij[1], ij[2]))}
\* the response contains exactly one structured object, and its score is 82
HasOneObjectWithScore82(text) ==
    /\ Cardinality(ObjectsIn(text)) = 1
    /\ \A ij \in ObjectsIn(text) : \E i \in (ij[1] + 1)..(ij[2] - 1) : text[i] = "s82"
\* the response has a line "Similarity Score: NN%" or the word "explanation"
HasLinePattern(text) ==
    \E i \in 1..Len(text) :
        text[i] \in {"Similarity Score: 65%", "similarity score: 40%", "Explanation:",
                     "s82", "s77"}
\* v is a result with this score
IsResultWithScore(v, score) ==
    /\ v.type = "dict"
    /\ "similarity_score" \in DOMAIN v.items
    /\ v.items.similarity_score = score

\* C17: a response that contains exactly one structured object, with score 82,
\* is parsed by _calculate_similarity to a result with score 82, whatever
\* surrounds the object.
C17_ObjectInProse ==
    (/\ run.op = "_calculate_similarity"
     /\ ~run.answer.raises
     /\ HasOneObjectWithScore82(run.answer.text))
        => IsResultWithScore(run.outcome.value, 82)

\* C18: a response without a structured object and without a line-pattern
\* match is parsed to the neutral fallback: score 50 and the default explanation.
C18_NeutralFallback ==
    (/\ run.op \in {"_calculate_similarity", "_parse_similarity_response"}
     /\ ~run.answer.raises
     /\ ObjectsIn(run.answer.text) = {}
     /\ ~HasLinePattern(run.answer.text))
        => /\ IsResultWithScore(run.outcome.value, 50)
           /\ run.outcome.value.items.explanation
                 = <<"Unable to calculate precise similarity.">>

\* C20: when the call of the backend raises, every entry point of the pipeline
\* returns a result with score 50 and raises nothing.
C20_BackendErrorIsNeutral ==
    (/\ run.op \in {"compare_profiles", "calculate_similarity", "rank_one"}
     /\ run.answer.raises
     /\ run.outcome.calls # <<>>)
        => /\ ~run.outcome.raises
           /\ IF run.op = "rank_one"
              THEN /\ Len(run.outcome.value) = 1
                   /\ IsResultWithScore(run.outcome.value[1], 50)
              ELSE IsResultWithScore(run.outcome.value, 50)

\* a thread ran the target to its end
Ran(target) == run.op = "job" /\ run.job.target = target
\* the job sent exactly this one message, to the channel of its user, and no
\* exception left it
SentOnly(kind, ref) ==
    /\ ~run.propagated
    /\ run.sent = <<Post(DM(run.job.user_id), Msg(kind, ref))>>
\* the same, whatever the message names or displays
SentOnlyKind(kind) ==
    /\ ~run.propagated
    /\ Len(run.sent) = 1
    /\ run.sent[1].channel = DM(run.job.user_id)
    /\ run.sent[1].text.kind = kind
\* the ids of the members of the directory that are not deleted, are no bots
\* and have a name, in the order of the directory
EligibleIds(members) ==
    LET eligible == SelectSeq(members, LAMBDA u : ~u.deleted /\ ~u.is_bot /\ u.real_name # "")
    IN  [i \in 1..Len(eligible) |-> eligible[i].id]
\* the search job got as far as looking members up
LookedUp ==
    /\ Ran("_find_similar_profiles")
    /\ ~run.env.base.raises
    /\ run.env.base.profile = Profile(UrlBase)
    /\ ~run.env.directory.raises

\* C12: the search job looks up at most 10 members of the directory: the first
\* 10, in the order of the directory, of those that are not deleted, are no
\* bots and have a name.
C12_AtMostTenMembers ==
    LookedUp =>
        LET ids == EligibleIds(run.env.directory.members)
        IN  /\ Len(run.body.attempted) <= 10
            /\ Len(run.body.attempted) <= Len(ids)
            /\ Len(run.body.attempted) = 10 \/ Len(run.body.attempted) = Len(ids)
            /\ \A i \in 1..Len(run.body.attempted) : run.body.attempted[i] = ids[i]

\* 12 eligible members and a bot among them: the first 10 eligible were looked up
C12_Witness ==
    /\ LookedUp
    /\ Len(run.env.directory.members) = 13
    /\ Len(EligibleIds(run.env.directory.members)) = 12
    /\ run.env.directory.members[4].is_bot
    /\ run.body.attempted = <<1, 2, 3, 5, 6, 7, 8, 9, 10, 11>>

\* no member that the job looked up has a profile
NoneResolves ==
    \A i \in 1..Len(run.body.attempted) :
        \/ run.env.lookup[run.body.attempted[i]].raises
        \/ run.env.lookup[run.body.attempted[i]].profile = NoProfile

\* C13: in the search job, when every chat_postMessage returns, a lookup miss
\* ends the job with exactly one failure message and without a call of the
\* pipeline: with the base profile absent the directory is not listed, and with
\* no member resolved to a profile nothing is ranked.
C13_SearchLookupMiss ==
    /\ (/\ Ran("_find_similar_profiles")
        /\ ~run.env.base.raises
        /\ run.env.base.profile \in {NoProfile, FailedProfile})
          => /\ SentOnly("profile_not_retrieved", <<>>)
             /\ ~run.body.listed
             /\ run.body.attempted = <<>>
             /\ ~run.body.called
    /\ (LookedUp /\ NoneResolves)
          => /\ SentOnly("no_linkedin_profiles", <<>>)
             /\ ~run.body.called

\* both misses happen: a profile that the provider reports as failed, and a
\* workspace of two members whose lookups miss or raise
C13_WitnessBase ==
    /\ Ran("_find_similar_profiles")
    /\ ~run.env.base.raises
    /\ run.env.base.profile = FailedProfile
    /\ SentOnly("profile_not_retrieved", <<>>)
C13_Witness ==
    /\ LookedUp
    /\ NoneResolves
    /\ Len(run.body.attempted) = 2
    /\ run.env.lookup[1].raises
    /\ ~run.env.lookup[2].raises
    /\ SentOnly("no_linkedin_profiles", <<>>)

\* C14: in the compare job, when every chat_postMessage returns: with the base
\* profile absent the job sends one failure message that names the base
\* reference and does not fetch the comparison profile; with the base present
\* and the comparison profile absent it sends one failure message that names
\* the comparison reference; the pipeline is called in neither case.
C14_CompareLookupMiss ==
    /\ (/\ Ran("_compare_specific_profiles")
        /\ ~run.env.base.raises
        /\ run.env.base.profile \in {NoProfile, FailedProfile})
          => /\ SentOnly("profile_not_retrieved", run.job.base_url)
             /\ run.body.fetched = <<"base">>
             /\ ~run.body.called
    /\ (/\ Ran("_compare_specific_profiles")
        /\ ~run.env.base.raises
        /\ run.env.base.profile = Profile(UrlBase)
        /\ ~run.env.comparison.raises
        /\ run.env.comparison.profile \in {NoProfile, FailedProfile})
          => /\ SentOnly("profile_not_retrieved", run.job.comparison_url)
             /\ run.body.fetched = <<"base", "comparison">>
             /\ ~run.body.called

\* the base is absent and the fetch of the comparison profile would have
\* raised; the two references differ, and the message names the base
C14_Witness ==
    /\ Ran("_compare_specific_profiles")
    /\ ~run.env.base.raises
    /\ run.env.base.profile = NoProfile
    /\ run.env.comparison.raises
    /\ run.job.base_url # run.job.comparison_url
    /\ SentOnly("profile_not_retrieved", run.job.base_url)

\* an exception was raised in the run of the job: by the fetch of a profile, by
\* the listing of the directory, by the pipeline, by the rendering of the
\* results, or by a chat_postMessage (the exception of a lookup by name is
\* caught in the loop of the lookups and ends nothing)
ErrorRaised ==
    \/ run.env.failing_posts > 0
    \/ run.env.base.raises
    \/ /\ ~IsAbsent(run.env.base.profile)
       /\ IF run.job.target = "_find_similar_profiles"
          THEN run.env.directory.raises
          ELSE run.env.comparison.raises
    \/ run.body.called /\ run.body.pipeline.raises
    \/ Head(run.body.attempts) = ErrorMsg

\* C11: an exception raised while a search or compare job runs does not leave
\* the job, and the job sends exactly one message, a failure message, to the
\* channel of its user.
C11_ErrorsCaught ==
    (run.op = "job" /\ ErrorRaised)
        => /\ ~run.propagated
           /\ Len(run.sent) = 1
           /\ run.sent[1].channel = run.job.channel_id
           /\ run.sent[1].text.kind \in {"error", "similarity_error"}

\* a value that is a result: an object with a score and an explanation
IsScoredResult(v) ==
    /\ v.type = "dict"
    /\ {"similarity_score", "explanation"} \subseteq DOMAIN v.items

\* C19: whatever text the backend returns, the pipeline that a job calls
\* returns results with a score and an explanation and the job reports a
\* similarity result; it does not end on a failure path.
C19_MalformedOutputNeverFails ==
    (/\ run.op = "job"
     /\ run.body.called
     /\ run.body.pipeline.calls # <<>>
     /\ \A url \in DOMAIN run.env.backend : ~run.env.backend[url].raises)
        => /\ ~run.body.pipeline.raises
           /\ IF run.job.target = "_find_similar_profiles"
              THEN /\ run.body.pipeline.value # <<>>
                   /\ \A i \in 1..Len(run.body.pipeline.value) :
                         IsScoredResult(run.body.pipeline.value[i])
                   /\ SentOnlyKind("similar_profiles")
              ELSE /\ IsScoredResult(run.body.pipeline.value)
                   /\ SentOnlyKind("comparison_result")

\* the number written after "similarity_score": in a member token
WrittenScore(tok) ==
    CASE tok = TokScore82 -> 82
      [] tok = TokScore77 -> 77
      [] tok = TokScore150 -> 150
      [] tok = TokScoreNeg -> 0 - 5
      [] OTHER -> 0
\* the job called the pipeline, which asked the backend, and every answer of
\* the backend was an object that holds score member tok, alone or after prose
AnsweredWith(tok) ==
    /\ run.op = "job"
    /\ run.body.called
    /\ run.body.pipeline.calls # <<>>
    /\ \A url \in DOMAIN run.env.backend :
          /\ ~run.env.backend[url].raises
          /\ run.env.backend[url].text \in {<<TokOpen, tok, TokClose>>,
                                           <<TokProse, TokOpen, tok, TokClose>>}

\* C21: the score of a result of rank or compare is the number written in the
\* backend's response, also when it is below 0 or above 100, and the message
\* of the job displays that number.
C21_ScorePassThrough ==
    \A tok \in {TokScore82, TokScore77, TokScore150, TokScoreNeg} :
        AnsweredWith(tok) =>
            /\ ~run.body.pipeline.raises
            /\ Len(run.sent) = 1
            /\ IF run.job.target = "_find_similar_profiles"
               THEN /\ run.body.pipeline.value # <<>>
                    /\ \A i \in 1..Len(run.body.pipeline.value) :
                          IsResultWithScore(run.body.pipeline.value[i], WrittenScore(tok))
                    /\ run.sent[1].text.kind = "similar_profiles"
                    /\ run.sent[1].text.scores
                          = [i \in 1..Len(run.body.pipeline.value) |->
                                ToString(WrittenScore(tok))]
               ELSE /\ IsResultWithScore(run.body.pipeline.value, WrittenScore(tok))
                    /\ run.sent[1].text.kind = "comparison_result"
                    /\ run.sent[1].text.scores = <<ToString(WrittenScore(tok))>>

\* a compare job whose backend wrote 150: the message displays 150
C21_Witness ==
    /\ AnsweredWith(TokScore150)
    /\ run.job.target = "_compare_specific_profiles"
    /\ run.body.pipeline.value.items.similarity_score = 150
    /\ run.sent = <<Post(run.job.channel_id, ResultMsg("comparison_result", <<"150">>))>>

\* the filter of section 4.4: a direct message, not of the bot itself, not
\* flagged as a bot's, and not seen before
ShouldForward(m) ==
    /\ m.channel_type = "im"
    /\ m.user # BotId
    /\ ~m.bot_id
    /\ m.ts \notin processed_messages

\* C22: polling and push decide alike: a step hands message m to the engine
\* only if m passes the filter, and lets m pass by only if it does not.
C22_SameDecision ==
    [][\A m \in Events(JobTexts, MaxInboundMsgs) :
          /\ (PollForward(m) \/ PushForward(m)) => ShouldForward(m)
          /\ (PollSeen(m) \/ PollOwn(m) \/ PushIgnored(m)) => ~ShouldForward(m)]_vars

\* the number written in a line "similarity score: N%"
WrittenLineScore(tok) ==
    CASE tok = "Similarity Score: 65%" -> 65
      [] tok = "similarity score: 40%" -> 40
      [] OTHER -> 0
\* the places of the lines "similarity score: N%" and "Explanation:" in a text
ScoreLines(text) == {i \in 1..Len(text) : WrittenLineScore(text[i]) # 0}
ExplanationLines(text) == {i \in 1..Len(text) : text[i] = "Explanation:"}
First(places) == CHOOSE i \in places : \A j \in places : i <= j
\* the text holds no member of an object, in which the word "explanation"
\* is found as well
NoMember(text) == \A i \in 1..Len(text) : text[i] \notin MemberTokens

StatsOf(api_stats) == {api_stats[i] : i \in {k \in 1..Len(api_stats) : api_stats[k].is_stats}}
\* the operations of a list of the analysis
ApisOf(list) == {list[i].api : i \in 1..Len(list)}

\* C25: analyze flags an operation as slow exactly when its average is above
\* 1.0 s, and as high volume exactly when it has more than 10 calls, and it
\* gives one recommendation for each flag.
C25_Thresholds ==
    run.op = "analyze_api_performance" =>
        /\ ApisOf(run.analysis.slow_apis)
              = {e.api : e \in {s \in StatsOf(run.api_stats) :
                                  s.avg_duration_seconds.num > 10 * s.avg_duration_seconds.den}}
        /\ ApisOf(run.analysis.high_volume_apis)
              = {e.api : e \in {s \in StatsOf(run.api_stats) : s.total_calls > 10}}
        /\ Len(run.analysis.slow_apis) = Cardinality(ApisOf(run.analysis.slow_apis))
        /\ Len(run.analysis.high_volume_apis)
              = Cardinality(ApisOf(run.analysis.high_volume_apis))
        /\ Len(run.analysis.recommendations)
              = Len(run.analysis.slow_apis) + Len(run.analysis.high_volume_apis)
        /\ \A api \in ApisOf(run.analysis.slow_apis) :
              Cardinality({i \in 1..Len(run.analysis.recommendations) :
                            run.analysis.recommendations[i]
                                = Recommendation(api, "Slow response time")}) = 1
        /\ \A api \in ApisOf(run.analysis.high_volume_apis) :
              Cardinality({i \in 1..Len(run.analysis.recommendations) :
                            run.analysis.recommendations[i]
                                = Recommendation(api, "High call volume")}) = 1

\* X is exactly at both thresholds and is not flagged; Y is above both and
\* gets two recommendations
C25_Witness ==
    /\ run.op = "analyze_api_performance"
    /\ Len(run.api_stats) = 2
    /\ run.api_stats[1].avg_duration_seconds = Fraction(10, 1)
    /\ run.api_stats[1].total_calls = 10
    /\ run.api_stats[2].avg_duration_seconds = Fraction(11, 1)
    /\ run.api_stats[2].total_calls = 11
    /\ run.analysis.recommendations
          = <<Recommendation("Y", "Slow response time"),
              Recommendation("Y", "High call volume")>>

\* the analysis was given 20 samples of X, 19 of 0.1 s and one of 5.0 s
TwentySamples ==
    /\ run.op = "analyze_response_time_distribution"
    /\ run.api_name \in {"", "X"}
    /\ Len(run.api_stats) = 1
    /\ run.api_stats[1].api = "X"
    /\ Len(run.api_stats[1].calls) = 20
    /\ Cardinality({k \in 1..20 : run.api_stats[1].calls[k].duration_seconds = 1}) = 19
    /\ Cardinality({k \in 1..20 : run.api_stats[1].calls[k].duration_seconds = 50}) = 1

\* C26: on 20 samples of one operation, 19 of 0.1 s and one of 5.0 s, the
\* distribution analysis flags exactly 1 outlier.
C26_OneOutlier ==
    TwentySamples =>
        /\ run.analysis.error = ""
        /\ run.analysis.apis_analyzed = <<"X">>
        /\ run.analysis.outliers = <<1>>

\* the slow sample is the first of the 20
C26_Witness ==
    /\ TwentySamples
    /\ run.api_name = "X"
    /\ run.api_stats[1].calls[1].duration_seconds = 50
    /\ run.analysis.outliers = <<1>>

\* list before is the beginning of list after
IsPrefix(before, after) ==
    /\ Len(before) <= Len(after)
    /\ SubSeq(after, 1, Len(before)) = before

\* C24: the sample lists only grow at their end: every step of a thread of the
\* bot leaves the samples recorded before in place and unchanged, and the
\* computation of the statistics leaves the lists as they are.
C24_SamplesAppendOnly ==
    [][/\ \A api_type \in ApiTypes :
             IsPrefix(run.api_call_stats[api_type], run'.api_call_stats[api_type])
       /\ run'.op = "_generate_performance_report"
             => run'.api_call_stats = run.api_call_stats]_vars

\* a report was made of 11 samples of chat_postMessage, the first of which is
\* the only slow one: the statistics show the last 10, the list holds all 11
C24_Witness ==
    /\ run.op = "_generate_performance_report"
    /\ Len(run.api_call_stats["slack_chat_postMessage"]) = 11
    /\ run.api_call_stats["slack_chat_postMessage"][1] = Sample(50)
    /\ \E i \in 1..Len(run.stats) :
          /\ run.stats[i].api = "slack_chat_postMessage"
          /\ run.stats[i].total_calls = 11
          /\ Len(run.stats[i].calls) = 10
          /\ \A k \in 1..10 : run.stats[i].calls[k] = Sample(1)

\* C30: a job leaves the conversation table and the set of processed messages
\* as they are: the step in which a job thread runs changes neither.
C30_JobFrame ==
    [][(jobs' # jobs /\ jobs' \subseteq jobs) =>
          /\ conversations' = conversations
          /\ processed_messages' = processed_messages]_vars

\* a job ended while its user was in a new conversation
C30_Witness ==
    /\ last.op = "job_done"
    /\ \E u \in DOMAIN conversations :
          /\ last.posts[1].channel = DM(u)
          /\ conversations[u].state = "awaiting_confirmation"
    /\ Cardinality(processed_messages) >= 5

\* C28: the engine is called at most once for a message id, also when the
\* Socket Mode client delivers the id to two handler threads at work together
C28_ConcurrentDuplicateOnce == \A ts \in DOMAIN forwarded : forwarded[ts] <= 1

\* C29: when the handler threads handle different messages of one user (no id
\* is handled twice), no handling ends in an exception
C29_ConcurrentHandlingsComplete ==
    (\A ts \in DOMAIN forwarded : forwarded[ts] <= 1) => last.op # "KeyError"

\* C23: whatever a call of the Slack client raises while a message is
\* ingested or handled, the ingestion goes on
C23_LoopSurvivesErrors == run.raised # "" => run.alive

AwaitingReference == {"awaiting_linkedin_url", "awaiting_comparison_url"}

\* C32: an input without the profile-URL pattern, handled while the bot waits
\* for a reference, leaves the whole table as it is, is answered by one
\* re-prompt and starts nothing, however many such inputs came before; the
\* conversation leaves the state only on an input with the pattern
C32_NoRetryLimit ==
    [][(Handled /\ StateOf(conversations, Sender) \in AwaitingReference) =>
        /\ ~Contains(UnwrappedInput(SentText), LINKEDIN_PATTERN) =>
              /\ conversations' = conversations
              /\ last'.posts = <<Post(last'.msg.channel, "invalid_url")>>
              /\ last'.started = {}
              /\ jobs' = jobs
        /\ StateOf(conversations', Sender) # StateOf(conversations, Sender) =>
              Contains(UnwrappedInput(SentText), LINKEDIN_PATTERN)]_vars

\* the one user who ever wrote was greeted, confirmed, and then sent four
\* invalid base references in a row
C32_Witness ==
    /\ last.op = "forward"
    /\ last.msg.ts = 6
    /\ last.posts = <<Post(last.msg.channel, "invalid_url")>>
    /\ DOMAIN conversations = {last.msg.user}
    /\ conversations[last.msg.user].state = "awaiting_linkedin_url"
    /\ conversations[last.msg.user].thread_ts = 1
    /\ dispatched = {}

\* the claims' reading of "the first balanced brace-delimited substring":
\* opening minus closing braces in text[i..j]
BraceDepth(text, i, j) ==
    Cardinality({k \in i..j : text[k] = "{"}) - Cardinality({k \in i..j : text[k] = "}"})
\* text[i..j] opens with a brace that its last token closes
IsBalanced(text, i, j) ==
    /\ text[i] = "{"
    /\ BraceDepth(text, i, j) = 0
    /\ \A k \in i..(j - 1) : BraceDepth(text, i, k) > 0
BalancedIn(text) ==
    {ij \in (1..Len(text)) \X (1..Len(text)) : ij[1] < ij[2] /\ IsBalanced(text, ij[1], ij[2])}
\* the first of them, or the empty text when there is none
FirstBalanced(text) ==
    IF BalancedIn(text) = {} THEN <<>>
    ELSE LET ij == CHOOSE a \in BalancedIn(text) : \A b \in BalancedIn(text) : a[1] <= b[1]
         IN  SubSeq(text, ij[1], ij[2])
\* the result of the three stages, in order
StagedResult(text) ==
    IF IsObjectText(text) THEN json_loads(text).value
    ELSE IF IsObjectText(FirstBalanced(text)) THEN json_loads(FirstBalanced(text)).value
    ELSE NeutralResult

\* C33: _calculate_similarity returns the whole response when it is one
\* structured object, otherwise the object that the first balanced
\* brace-delimited substring of the response is, otherwise the neutral result
C33_StagedParsing ==
    (run.op = "_calculate_similarity" /\ ~run.answer.raises)
        => run.outcome.value = StagedResult(run.answer.text)

\* a job that has ended
JobEnded == run.op = "job"

\* C34: a job that was started ends, after at most 10 lookups of candidates,
\* and when it ends it has sent a message to its channel: its result or a
\* failure message.
C34_JobEndsAfterMessage ==
    JobEnded =>
        /\ Len(run.body.attempted) <= SampleSize
        /\ ~run.propagated
        /\ Len(run.sent) = 1
        /\ run.sent[1].channel = run.job.channel_id


\* a search job that has sent its results
ResultsSent ==
    /\ JobEnded
    /\ run.job.target = "_find_similar_profiles"
    /\ run.sent # <<>>
    /\ run.sent[1].text.kind = "similar_profiles"

\* the members whose names the job resolved to a profile, with the profiles
ResolvedMembers ==
    resolve_each(sample_users(clean_users(run.env.directory.members)), run.env.lookup)

\* C35: the entries of the result message name the members whose profiles
\* produced the results: each result comes from one candidate, so no two
\* entries name the same member, also when two members' names resolve to
\* profiles with the same identifier.
C35_EntriesNameTheirMembers ==
    ResultsSent =>
        LET named == rendered_members(run.body.pipeline.value, ResolvedMembers)
        IN  /\ Len(named) = Len(run.body.pipeline.value)
            /\ \A i, k \in 1..Len(named) : named[i] = named[k] => i = k


\* a reference that passed the validation of the engine
IsValidated(ref) == ref # None /\ Contains(ref, LINKEDIN_PATTERN)

\* C36: a conversation that waits for the choice of the mode or for the
\* comparison reference has a stored base reference that contains the
\* profile-URL pattern, and every job is started with a validated base
\* reference, a compare job also with a validated comparison reference.
C36_ReferencesValidated ==
    /\ \A u \in DOMAIN conversations :
          conversations[u].state \in {"awaiting_comparison_choice", "awaiting_comparison_url"}
              => /\ "base_linkedin_url" \in DOMAIN conversations[u]
                 /\ IsValidated(conversations[u].base_linkedin_url)
    /\ \A j \in jobs \cup last.started :
          /\ IsValidated(j.base_url)
          /\ j.target = "_compare_specific_profiles" => IsValidated(j.comparison_url)
          /\ j.target = "_find_similar_profiles" => j.comparison_url = None

\* the sixth message starts a compare job on two validated references, and no
\* conversation is left: one of the messages before was rejected
C36_Witness ==
    /\ last.msg.ts = 6
    /\ conversations = <<>>
    /\ \E j \in last.started : /\ j.target = "_compare_specific_profiles"
                               /\ j.base_url = UrlA
                               /\ j.comparison_url = UrlB
    /\ Cardinality(jobs) = 1


\* C37: a conversation starts at most one job, also when two messages of its
\* user are handled by two handler threads at the same time (two messages:
\* the runs in which one id is handled twice are left out).
C37_OneJobPerConversation ==
    (\A ts \in DOMAIN forwarded : forwarded[ts] <= 1)
        => \A j, k \in jobs : j.conv = k.conv => j = k


\* the engine was called for a message and the post of the reply raised
SendFailed ==
    /\ last'.op = "send_failed"
    /\ forwarded'[last'.msg.ts] = forwarded[last'.msg.ts] + 1

\* C38: when the post of the reply to a message raises, the conversation table
\* is left as it was before the message.
C38_FailedReplyLeavesTable ==
    [][SendFailed => conversations' = conversations]_vars


\* the state of the sender's conversation after a handling that makes the
\* accesses of the branch of state and text
StateAfter(state, text) ==
    LET made == {accesses(state, text)[i] : i \in 1..Len(accesses(state, text))}
    IN  IF "del_row" \in made THEN "none"
        ELSE IF "store_row" \in made THEN "awaiting_confirmation"
        ELSE IF "set_state" \in made THEN next_state(state)
        ELSE state

\* C39: the handling of a message of user u changes no entry of the table but
\* u's, and its reply, the state it leaves and whether it starts a job are
\* determined by the state of u's conversation and the text of the message.
C39_OnlySenderEntry ==
    [][Handled =>
        LET state == StateOf(conversations, Sender)
        IN  /\ \A v \in (DOMAIN conversations \cup DOMAIN conversations') \ {Sender} :
                  /\ v \in DOMAIN conversations
                  /\ v \in DOMAIN conversations'
                  /\ conversations'[v] = conversations[v]
            /\ last'.posts = <<Post(last'.msg.channel, reply(state, SentText))>>
            /\ StateOf(conversations', Sender) = StateAfter(state, SentText)
            /\ (last'.started # {}) <=> (Strip(SentText) = <<"2">>
                                            /\ state = "awaiting_comparison_choice")
                                        \/ (is_reference(SentText)
                                            /\ state = "awaiting_comparison_url")]_vars

\* U2's message ends U2's conversation while U1 waits for the choice of the
\* mode with a stored reference
C39_Witness ==
    /\ last.op = "forward" /\ last.msg.user = "U2"
    /\ last.posts = <<Post(last.msg.channel, "no_problem")>>
    /\ DOMAIN conversations = {"U1"}
    /\ conversations["U1"].state = "awaiting_comparison_choice"
    /\ conversations["U1"].base_linkedin_url = UrlA


\* the ids of the messages of a window that the cycle hands to the engine:
\* those of the user that were not seen when the window was fetched
RECURSIVE unseen_ids(_, _)
unseen_ids(window, seen) ==
    IF window = <<>> THEN <<>>
    ELSE IF Head(window).user # BotId /\ Head(window).ts \notin seen
    THEN <<Head(window).ts>> \o unseen_ids(Tail(window), seen)
    ELSE unseen_ids(Tail(window), seen)

\* C40: in one polling cycle the unseen messages of a channel are handed to
\* the engine in the order in which the fetched window lists them, whatever
\* their timestamps.
C40_WindowOrder ==
    run.order = unseen_ids(SubSeq(run.window, 1, run.pos), run.seen)

\* a window that lists the newer message first: the engine got the newer
\* message before the older one, and the one between them was seen before
C40_Witness ==
    /\ run.pos = 3
    /\ [i \in 1..Len(run.window) |-> run.window[i].ts] = <<3, 2, 1>>
    /\ run.seen = {2}
    /\ run.order = <<3, 1>>

====
